---------------------------- MODULE Spec2Model ----------------------------
(***************************************************************************)
(* Regime-based backtesting engine (backtester.py).                        *)
(*                                                                         *)
(* add_hmm_regimes: the data check, the adaptive number of states, the     *)
(* decoded states and the Bull / Bear labelling.                           *)
(* run_backtest: the bar-by-bar trade simulation and the final close.      *)
(*                                                                         *)
(* Money is an exact rational <<numerator, denominator>> in lowest terms   *)
(* (the code uses floats; rounding is not modelled).  Timestamps are whole *)
(* hours counted from pd.Timestamp.min.  momentum is in units of 0.01.     *)
(* The HMM fit and its decoding are a library call: the set of decoded     *)
(* states and the mean return of each are drawn, not computed.            *)
(***************************************************************************)
EXTENDS Integers, Sequences, FiniteSets

VARIABLES
    pc,                 \* "start", "raised", "labelled", "loop", "done"
    n_components,       \* add_hmm_regimes: requested number of states
    valid_rows,         \* add_hmm_regimes: len(features) after dropna
    adaptive_components,\* add_hmm_regimes: number of states fitted
    regime_states,      \* the values of the regime_state column
    state_returns,      \* add_hmm_regimes: mean return per decoded state
    regime_label,       \* regime_label of the rows of each state
    bull_state,
    bear_state,
    initial_capital,    \* run_backtest argument
    leverage,           \* run_backtest argument
    capital,
    in_position,
    entry_price,
    entry_time,
    entry_capital,
    entry_votes,
    cooldown_until,
    trades,
    equity_points,
    signal_points,
    row,                \* the bar the loop processed last (ts, row)
    metrics,
    entries,            \* history: the bars on which a position was opened
    confirmed_bull_seen,\* history: some bar was Bull with >= 7 votes
    rising_bull,        \* history: every bar was Bull (not Bear) with 8
                        \* votes and closed above the bar before it
    checks_returned,    \* evaluate_confirmations: the dict it returns
    votes_returned,     \* evaluate_confirmations: the count it returns
    downloaded,         \* fetch_hourly_btc_data: the frame yf.download gave
    raw,                \* run_backtest: the rows fetch_hourly_btc_data returned
    out,                \* compute_indicators: the rows with their indicators
    df,                 \* run_backtest: the rows left by df.dropna()
    pos,                \* run_backtest: rows of df the loop has taken
    bar,                \* run_backtest: the row the loop took last
    now,                \* now_ts() / _now(): the clock, in seconds
    shutdown,           \* App._shutdown
    pause_until_ts,     \* KillSwitch.pause_until_ts
    open_positions,     \* App.open_positions: trade_id -> Position
    next_trade,         \* number of trade ids uuid4 has issued
    pending,            \* monitor pass: positions of the list still to visit
    to_close,           \* monitor pass: trade ids whose exit returned True
                        \* (empty between passes)
    candidate,          \* the TradeCandidate opportunity_scan picked last
    received,           \* history: the kwargs of every record_trade write
    entered,            \* history: trade ids execute opened a position for
    exits_ok,           \* history: trade ids exit_position returned True for
    exits_failed,       \* history: exit attempts that found no midpoint
    db_trades,          \* the rows of the table trades
    db_snapshots,       \* the rows of the table trade_snapshots
    db_call,            \* DB.record_trade: the kwargs of the last call
    db_raised,          \* DB.record_trade: what the last call raised
    db_errors,          \* history: writes that found the database locked
    liquidity_usd,      \* compute_qty: its argument
    qty,                \* compute_qty: the quantity it returned
    failures,           \* CircuitBreakerState.failures
    open_until,         \* CircuitBreakerState.open_until
    backoff_seconds,    \* CircuitBreakerState.backoff_seconds
    failed_requests,    \* history: requests that failed since the last
                        \* successful one
    get_json_result     \* _get_json: how the last call ended

vars == <<pc, n_components, valid_rows, adaptive_components, regime_states,
          state_returns, regime_label, bull_state, bear_state,
          initial_capital, leverage, capital, in_position, entry_price,
          entry_time, entry_capital, entry_votes, cooldown_until, trades,
          equity_points, signal_points, row, metrics, entries,
          confirmed_bull_seen, rising_bull, checks_returned,
          votes_returned, downloaded, raw, out, df, pos, bar, now,
          shutdown, pause_until_ts, open_positions, next_trade, pending,
          to_close, candidate, received, entered, exits_ok, exits_failed,
          db_trades, db_snapshots, db_call, db_raised, db_errors,
          liquidity_usd, qty,
          failures, open_until, backoff_seconds, failed_requests,
          get_json_result>>

hmm_vars == <<n_components, valid_rows, adaptive_components, regime_states,
              state_returns, regime_label, bull_state, bear_state>>

sim_vars == <<capital, in_position, entry_price, entry_time, entry_capital,
              entry_votes, cooldown_until, trades, equity_points,
              signal_points, row, metrics, entries, confirmed_bull_seen,
              rising_bull>>

call_vars == <<checks_returned, votes_returned>>

frame_vars == <<downloaded, raw, out, df, pos, bar>>

app_vars == <<shutdown, pause_until_ts, open_positions, next_trade, pending,
              to_close, candidate, received, entered, exits_ok,
              exits_failed>>

db_vars == <<db_trades, db_snapshots, db_call, db_raised, db_errors>>

qty_vars == <<liquidity_usd, qty>>

breaker_vars == <<failures, open_until, backoff_seconds, failed_requests,
                  get_json_result>>

\* the orchestrator, its store and its collectors (main.py, storage/db.py,
\* collectors/polyscan_collector.py)
live_vars == <<now, app_vars, db_vars, qty_vars, breaker_vars>>

\* the backtester (backtester.py, data_loader.py)
backtest_vars == <<hmm_vars, sim_vars, call_vars, frame_vars,
                   initial_capital, leverage>>

-----------------------------------------------------------------------------
(* Bounds of the model *)

MaxBars == 3            \* rows of the cleaned series that are simulated
MaxComponents == 4      \* largest n_components passed to add_hmm_regimes
MaxRows == 250          \* largest len(features)
SeriesRows == 200       \* rows of the frame yf.download returns
MaxNow == 301           \* the clock stops here
MaxDbErrors == 1        \* writes that may find the database locked
MaxExitFailures == 2    \* exit attempts that may find no midpoint

(* Program constants *)

None == -1              \* Python None / not yet assigned
TimestampMin == 0       \* pd.Timestamp.min, the origin of the hour count
MinRows == 120
RowsPerState == 60
MinComponents == 2
DefaultComponents == 7
DefaultCapital == 10000
VoteThreshold == 7
CooldownHours == 48
RsiMax == 90
MomentumMin == 1
VolatilityMax == 6
AdxMin == 25
RsiWindow == 14         \* rolling(14) of gain and loss
VolatilityWindow == 24  \* rolling(24) of returns and of the volume change
MomentumLag == 12       \* pct_change(12)
AdxWindow == 14         \* rolling(14) of tr, plus_dm, minus_dm and dx
MaxHoldSeconds == 300   \* Position.max_hold_seconds set by execute
QtyFloor == 1           \* compute_qty: max(1.0, ...)
QtyCap == 500           \* compute_qty: min(..., 500.0)
InitialBackoffSeconds == 15     \* CircuitBreakerState.backoff_seconds
FailureThreshold == 3   \* CircuitBreakerState.on_failure
MaxBackoffSeconds == 600        \* CircuitBreakerState.on_failure
SecondsPerMinute == 60  \* KillSwitch.trigger_pause

(* Configuration (config/config.yaml, read through self.cfg) *)

MaxPositionPctOfLiquidity == <<1, 100>>
MaxConsecutiveExitFailures == 2
PauseMinutesOnTrigger == 5
MinEdgeAfterCostsCents == 2
MaxTradesPerDay == 2
Mode == "paper"

(* Input domains *)

HistoryRows == {0, MinRows - 1, MinRows, MinRows + 1, 3 * RowsPerState - 1}
MeanVals == {-1, 0, 1}
Leverages == {<<1, 1>>, <<5, 2>>}
Closes == {20, 40}
Gaps == {1, CooldownHours}

\* the bars evaluate_confirmations is called on: every indicator below, at
\* and above the value it is compared with
VoteRows ==
    [ts : {1}, Close : {20}, regime_state : {0, 1},
     rsi : {89, 90, 91}, momentum : {0, 1, 2}, volatility : {5, 6, 7},
     adx : {24, 25, 26}, ema50 : {15, 20, 25}, ema200 : {10, 20, 30},
     macd : {0, 1}, macd_signal : {0, 1}]

\* indicator values of a bar: 8, 7 and 6 confirmations
Indicators ==
    { [rsi |-> 50, momentum |-> 2, volatility |-> 3, adx |-> 30,
       ema50 |-> 15, ema200 |-> 10, macd |-> 1, macd_signal |-> 0],
      [rsi |-> 95, momentum |-> 2, volatility |-> 3, adx |-> 30,
       ema50 |-> 15, ema200 |-> 10, macd |-> 1, macd_signal |-> 0],
      [rsi |-> 95, momentum |-> 2, volatility |-> 3, adx |-> 20,
       ema50 |-> 15, ema200 |-> 10, macd |-> 1, macd_signal |-> 0] }

-----------------------------------------------------------------------------
(* Exact arithmetic *)

Abs(x) == IF x < 0 THEN -x ELSE x

Max2(a, b) == IF a >= b THEN a ELSE b

Min2(a, b) == IF a <= b THEN a ELSE b

RECURSIVE GCD(_, _)
GCD(a, b) == IF b = 0 THEN a ELSE GCD(b, a % b)

RNorm(n, d) == LET g == GCD(Abs(n), d) IN <<n \div g, d \div g>>

Zero == <<0, 1>>

RSub(a, b) == RNorm(a[1] * b[2] - b[1] * a[2], a[2] * b[2])

\* a / b for b > 0
RDiv(a, b) == RNorm(a[1] * b[2], a[2] * b[1])

RScale(a, k) == RNorm(a[1] * k, a[2])

RLess(a, b) == a[1] * b[2] < b[1] * a[2]

-----------------------------------------------------------------------------
(* add_hmm_regimes *)

TooFewRowsOrEqual(n) == n <= MinRows

TooFewRows(n) == n < MinRows

AdaptiveComponentsSwapped(requested, n) ==
    Min2(MinComponents, Max2(requested, n \div RowsPerState))

AdaptiveComponents(requested, n) ==
    Max2(MinComponents, Min2(requested, n \div RowsPerState))

IdxMaxLast(sr) ==
    CHOOSE s \in DOMAIN sr :
        /\ \A t \in DOMAIN sr : sr[t] <= sr[s]
        /\ \A t \in DOMAIN sr : sr[t] = sr[s] => s >= t

\* Series.idxmax over the groups in index (state id) order: the first maximum
IdxMax(sr) ==
    CHOOSE s \in DOMAIN sr :
        /\ \A t \in DOMAIN sr : sr[t] <= sr[s]
        /\ \A t \in DOMAIN sr : sr[t] = sr[s] => s <= t

IdxMin(sr) ==
    CHOOSE s \in DOMAIN sr :
        /\ \A t \in DOMAIN sr : sr[t] >= sr[s]
        /\ \A t \in DOMAIN sr : sr[t] = sr[s] => s <= t

\* the three assignments of lines 96-98, in their order
RegimeLabel(s, bull, bear) ==
    IF s = bear THEN "Bear/Crash"
    ELSE IF s = bull THEN "Bull Run"
    ELSE "Neutral"

AddHmmRegimesRaise ==
    /\ pc = "start"
    /\ TooFewRows(valid_rows)
    /\ pc' = "raised"
    /\ UNCHANGED <<live_vars,
                   call_vars, frame_vars, hmm_vars, initial_capital, leverage,
                   sim_vars>>

AddHmmRegimesFit ==
    /\ pc = "start"
    /\ ~TooFewRows(valid_rows)
    /\ LET k == AdaptiveComponents(n_components, valid_rows) IN
         \E occ \in (SUBSET (0 .. k - 1)) \ {{}} :
           \E sr \in [occ -> MeanVals] :
             /\ adaptive_components' = k
             /\ regime_states' = occ
             /\ state_returns' = sr
             /\ bull_state' = IdxMax(sr)
             /\ bear_state' = IdxMin(sr)
             /\ regime_label' =
                  [s \in occ |-> RegimeLabel(s, IdxMax(sr), IdxMin(sr))]
    /\ pc' = "labelled"
    /\ UNCHANGED <<live_vars,
                   call_vars, frame_vars, n_components, valid_rows,
                   initial_capital, leverage, sim_vars>>

-----------------------------------------------------------------------------
(* run_backtest *)

NoRow ==
    [ts |-> TimestampMin, Close |-> None, regime_state |-> None,
     rsi |-> None, momentum |-> None, volatility |-> None, adx |-> None,
     ema50 |-> None, ema200 |-> None, macd |-> None, macd_signal |-> None]

MakeRow(t, c, s, p) ==
    [ts |-> t, Close |-> c, regime_state |-> s,
     rsi |-> p.rsi, momentum |-> p.momentum, volatility |-> p.volatility,
     adx |-> p.adx, ema50 |-> p.ema50, ema200 |-> p.ema200,
     macd |-> p.macd, macd_signal |-> p.macd_signal]

Vote(b) == IF b THEN 1 ELSE 0

ChecksEma200Reversed(r) ==
    [rsi_lt_90 |-> r.rsi < RsiMax,
     momentum_gt_1pct |-> r.momentum > MomentumMin,
     volatility_lt_6pct |-> r.volatility < VolatilityMax,
     adx_gt_25 |-> r.adx > AdxMin,
     price_gt_ema50 |-> r.Close > r.ema50,
     price_gt_ema200 |-> r.ema200 > r.Close,
     ema50_gt_ema200 |-> r.ema50 > r.ema200,
     macd_gt_signal |-> r.macd > r.macd_signal]

\* lines 104-113
Checks(r) ==
    [rsi_lt_90 |-> r.rsi < RsiMax,
     momentum_gt_1pct |-> r.momentum > MomentumMin,
     volatility_lt_6pct |-> r.volatility < VolatilityMax,
     adx_gt_25 |-> r.adx > AdxMin,
     price_gt_ema50 |-> r.Close > r.ema50,
     price_gt_ema200 |-> r.Close > r.ema200,
     ema50_gt_ema200 |-> r.ema50 > r.ema200,
     macd_gt_signal |-> r.macd > r.macd_signal]

evaluate_confirmations_weighted(r) ==
      2 * Vote(Checks(r).rsi_lt_90)
    + Vote(Checks(r).momentum_gt_1pct)
    + Vote(Checks(r).volatility_lt_6pct)
    + Vote(Checks(r).adx_gt_25)
    + Vote(Checks(r).price_gt_ema50)
    + Vote(Checks(r).price_gt_ema200)
    + Vote(Checks(r).ema50_gt_ema200)
    + Vote(Checks(r).macd_gt_signal)

\* votes = sum(checks.values())
evaluate_confirmations(r) ==
      Vote(Checks(r).rsi_lt_90)
    + Vote(Checks(r).momentum_gt_1pct)
    + Vote(Checks(r).volatility_lt_6pct)
    + Vote(Checks(r).adx_gt_25)
    + Vote(Checks(r).price_gt_ema50)
    + Vote(Checks(r).price_gt_ema200)
    + Vote(Checks(r).ema50_gt_ema200)
    + Vote(Checks(r).macd_gt_signal)

\* a call evaluate_confirmations(row) and what it returns
EvaluateConfirmations ==
    /\ pc = "call"
    /\ checks_returned' = Checks(row)
    /\ votes_returned' = evaluate_confirmations(row)
    /\ pc' = "voted"
    /\ UNCHANGED <<live_vars,
                   frame_vars, hmm_vars, initial_capital, leverage,
                   sim_vars>>

RegimeIsBull(r) == r.regime_state = bull_state

RegimeIsBearAndWeak(r) ==
    r.regime_state = bear_state /\ evaluate_confirmations(r) < VoteThreshold

RegimeIsNotBull(r) == r.regime_state # bull_state

RegimeIsBear(r) == r.regime_state = bear_state

MarkedEquityUnclamped(ecap, lev, close, eprice) ==
    RNorm(ecap[1] * (lev[2] * eprice + lev[1] * (close - eprice)),
          ecap[2] * lev[2] * eprice)

MarkedEquityShort(ecap, lev, close, eprice) ==
    LET num == ecap[1] * (lev[2] * eprice + lev[1] * (eprice - close))
        den == ecap[2] * lev[2] * eprice
    IN  IF num < 0 THEN Zero ELSE RNorm(num, den)

\* max(entry_capital * (1 + leverage * (close / entry_price - 1)), 0.0)
MarkedEquity(ecap, lev, close, eprice) ==
    LET num == ecap[1] * (lev[2] * eprice + lev[1] * (close - eprice))
        den == ecap[2] * lev[2] * eprice
    IN  IF num < 0 THEN Zero ELSE RNorm(num, den)

PnlFromInitial(marked_equity, ecap) == RSub(marked_equity, initial_capital)

\* pnl = marked_equity - entry_capital (lines 158 and 195)
Pnl(marked_equity, ecap) == RSub(marked_equity, ecap)

ReturnPct(pnl, ecap) ==
    IF ecap[1] # 0 THEN RScale(RDiv(pnl, ecap), 100) ELSE Zero

TradeSwapped(etime, xtime, eprice, xprice, evotes, reason, pnl, ecap) ==
    [entry_time |-> xtime, exit_time |-> etime, entry_price |-> eprice,
     exit_price |-> xprice, entry_votes |-> evotes, exit_reason |-> reason,
     pnl |-> pnl, return_pct |-> ReturnPct(pnl, ecap)]

TradeUnclamped(etime, xtime, eprice, xprice, evotes, reason, pnl, ecap) ==
    LET loss == RSub(MarkedEquityUnclamped(ecap, leverage, xprice, eprice),
                     ecap)
    IN  [entry_time |-> etime, exit_time |-> xtime, entry_price |-> eprice,
         exit_price |-> xprice, entry_votes |-> evotes,
         exit_reason |-> reason,
         pnl |-> loss, return_pct |-> ReturnPct(loss, ecap)]

Trade(etime, xtime, eprice, xprice, evotes, reason, pnl, ecap) ==
    [entry_time |-> etime, exit_time |-> xtime, entry_price |-> eprice,
     exit_price |-> xprice, entry_votes |-> evotes, exit_reason |-> reason,
     pnl |-> pnl, return_pct |-> ReturnPct(pnl, ecap)]

NoCooldown(t) == t

CooldownUntil(t) == t + CooldownHours

CanEnterAnyTime(inpos, t, cool) == t >= cool

CanEnterStrict(inpos, t, cool) == (~inpos) /\ t > cool

CanEnter(inpos, t, cool) == (~inpos) /\ t >= cool

EntryRuleLoose(can_enter, bull, votes) ==
    can_enter /\ bull /\ votes >= VoteThreshold - 1

EntryRuleAnyRegime(can_enter, bull, votes) ==
    can_enter /\ votes >= VoteThreshold

EntryRule(can_enter, bull, votes) ==
    can_enter /\ bull /\ votes >= VoteThreshold

EquityPointCapital(inpos, marked_equity, cap) == cap

\* line 188
EquityPoint(inpos, marked_equity, cap) ==
    IF inpos THEN marked_equity ELSE cap

SignalPointSwapped(inpos) == IF inpos THEN "Cash" ELSE "Long"

\* line 189
SignalPoint(inpos) == IF inpos THEN "Long" ELSE "Cash"

ShouldExitAlways(inpos, bear) == inpos

\* line 156
ShouldExit(inpos, bear) == inpos /\ bear

\* lines 131-143
StartBacktest ==
    /\ pc = "labelled"
    /\ pc' = "loop"
    /\ n_components' = None
    /\ valid_rows' = None
    /\ adaptive_components' = None
    /\ state_returns' = <<>>
    /\ capital' = initial_capital
    /\ in_position' = FALSE
    /\ entry_price' = 0
    /\ entry_time' = None
    /\ entry_capital' = initial_capital
    /\ entry_votes' = 0
    /\ cooldown_until' = TimestampMin
    /\ trades' = <<>>
    /\ equity_points' = <<>>
    /\ signal_points' = <<>>
    /\ UNCHANGED <<live_vars,
                   call_vars, frame_vars, regime_states, regime_label,
                   bull_state, bear_state,
                   initial_capital, leverage, row, metrics, entries,
                   confirmed_bull_seen, rising_bull>>

\* one iteration of the loop of lines 145-189
ProcessBar ==
    /\ pc = "loop"
    /\ Len(equity_points) < MaxBars
    /\ \E dt \in Gaps, c \in Closes, s \in regime_states, p \in Indicators :
         LET r == MakeRow(row.ts + dt, c, s, p)
             votes == evaluate_confirmations(r)
             regime_is_bull == RegimeIsBull(r)
             regime_is_bear == RegimeIsBear(r)
             marked_equity ==
                 IF in_position
                 THEN MarkedEquity(entry_capital, leverage, r.Close, entry_price)
                 ELSE capital
             should_exit == ShouldExit(in_position, regime_is_bear)
             pnl == Pnl(marked_equity, entry_capital)
             capital1 == IF should_exit THEN marked_equity ELSE capital
             in_position1 == IF should_exit THEN FALSE ELSE in_position
             cooldown1 ==
                 IF should_exit THEN CooldownUntil(r.ts) ELSE cooldown_until
             can_enter == CanEnter(in_position1, r.ts, cooldown1)
             enter == EntryRule(can_enter, regime_is_bull, votes)
             in_position2 == IF enter THEN TRUE ELSE in_position1
         IN  /\ row' = r
             /\ trades' =
                  IF should_exit
                  THEN Append(trades,
                         Trade(entry_time, r.ts, entry_price, r.Close,
                               entry_votes, "Regime flipped to Bear/Crash",
                               pnl, entry_capital))
                  ELSE trades
             /\ capital' = capital1
             /\ cooldown_until' = cooldown1
             /\ in_position' = in_position2
             /\ entry_price' =
                  IF enter THEN r.Close
                  ELSE IF should_exit THEN 0 ELSE entry_price
             /\ entry_time' =
                  IF enter THEN r.ts
                  ELSE IF should_exit THEN None ELSE entry_time
             /\ entry_capital' =
                  IF enter \/ should_exit THEN capital1 ELSE entry_capital
             /\ entry_votes' =
                  IF enter THEN votes
                  ELSE IF should_exit THEN 0 ELSE entry_votes
             /\ entries' = IF enter THEN Append(entries, r) ELSE entries
             /\ confirmed_bull_seen' =
                  (confirmed_bull_seen
                     \/ (r.regime_state = bull_state /\ votes >= VoteThreshold))
             /\ rising_bull' =
                  (/\ rising_bull
                   /\ r.regime_state = bull_state
                   /\ r.regime_state # bear_state
                   /\ votes = 8
                   /\ (Len(equity_points) > 0 => r.Close > row.Close))
             /\ equity_points' =
                  Append(equity_points,
                         EquityPoint(in_position2, marked_equity, capital1))
             /\ signal_points' =
                  Append(signal_points, SignalPoint(in_position2))
    /\ UNCHANGED <<live_vars,
                   call_vars, frame_vars, pc, hmm_vars, initial_capital,
                   leverage, metrics>>

\* float('nan'), written 0 / 0
NaN == <<0, 0>>

\* equity_curve.cummax() at position k
RECURSIVE RunningMax(_, _)
RunningMax(equity_curve, k) ==
    IF k = 1
    THEN equity_curve[1]
    ELSE LET m == RunningMax(equity_curve, k - 1)
         IN  IF RLess(m, equity_curve[k]) THEN equity_curve[k] ELSE m

\* equity_curve / running_max - 1.0 at position k (0 / 0 is NaN)
Drawdown(equity_curve, k) ==
    LET running_max == RunningMax(equity_curve, k)
    IN  IF running_max[1] = 0
        THEN NaN
        ELSE RSub(RDiv(equity_curve[k], running_max), <<1, 1>>)

\* float(drawdown.min()): the least value that is not NaN, NaN when there is
\* none
max_drawdown(equity_curve) ==
    LET drawdown ==
            {Drawdown(equity_curve, k) : k \in DOMAIN equity_curve} \ {NaN}
    IN  IF drawdown = {}
        THEN NaN
        ELSE CHOOSE v \in drawdown : \A w \in drawdown : ~RLess(w, v)

Wins(ts) == Cardinality({k \in DOMAIN ts : RLess(Zero, ts[k].pnl)})

FinalTradesUnclosed(last_pnl) == trades

\* lines 191-209: the close at the end of the series
FinalTrades(last_pnl) ==
    IF in_position /\ entry_time # None
    THEN Append(trades,
           Trade(entry_time, row.ts, entry_price, row.Close, entry_votes,
                 "End of backtest", last_pnl, entry_capital))
    ELSE trades

\* lines 191-242: the series has ended
Finish ==
    /\ pc = "loop"
    /\ LET closing == in_position /\ entry_time # None
           marked_equity ==
               IF closing
               THEN MarkedEquity(entry_capital, leverage, row.Close, entry_price)
               ELSE capital
           pnl == Pnl(marked_equity, entry_capital)
           capital1 == IF closing THEN marked_equity ELSE capital
           trades1 == FinalTrades(pnl)
       IN  /\ trades' = trades1
           /\ capital' = capital1
           /\ metrics' =
                [initial_capital |-> initial_capital,
                 ending_capital |-> capital1,
                 total_return |->
                     IF initial_capital[1] # 0
                     THEN RSub(RDiv(capital1, initial_capital), <<1, 1>>)
                     ELSE Zero,
                 win_rate |->
                     IF Len(trades1) > 0
                     THEN RNorm(Wins(trades1), Len(trades1))
                     ELSE Zero,
                 total_trades |-> Len(trades1),
                 max_drawdown |-> max_drawdown(equity_points)]
    /\ pc' = "done"
    /\ UNCHANGED <<live_vars,
                   call_vars, frame_vars, hmm_vars, initial_capital, leverage,
                   in_position,
                   entry_price, entry_time, entry_capital, entry_votes,
                   cooldown_until, equity_points, signal_points, row,
                   entries, confirmed_bull_seen, rising_bull>>

-----------------------------------------------------------------------------
(* The pipeline ahead of the loop: fetch_hourly_btc_data, compute_indicators, *)
(* the feature rows of add_hmm_regimes, df.dropna() and df.iterrows().         *)
(*                                                                         *)
(* A value computed by compute_indicators is modelled by its class: "num" *)
(* (a finite float), "nan" or "inf".  Zero denominators are computed from *)
(* the integer prices and volumes of the rows.  A rolling mean or std is   *)
(* "nan" until its window is full and whenever the window holds a value    *)
(* that is not "num".                                                      *)

Columns == {"Open", "High", "Low", "Close", "Volume"}

\* an hourly bar of a market that moves up and down by one
RegularBar(t) ==
    [ts |-> t, Open |-> 20 + (t % 2), High |-> 21 + (t % 2),
     Low |-> 19 + (t % 2), Close |-> 20 + (t % 2), Volume |-> 5]

\* the bars of a stretch that starts at hour a: closes that only rise, a
\* market that does not move, hours without volume, a row of zero prices
SegmentBar(kind, a, t) ==
    CASE kind = "rising" ->
           [ts |-> t, Open |-> 22 + (t - a), High |-> 23 + (t - a),
            Low |-> 21 + (t - a), Close |-> 22 + (t - a), Volume |-> 5]
      [] kind = "flat" ->
           [ts |-> t, Open |-> 20, High |-> 20, Low |-> 20, Close |-> 20,
            Volume |-> 5]
      [] kind = "novolume" ->
           [RegularBar(t) EXCEPT !.Volume = 0]
      [] kind = "zeroclose" ->
           [ts |-> t, Open |-> 0, High |-> 0, Low |-> 0, Close |-> 0,
            Volume |-> 5]

SegmentKinds == {"rising", "flat", "novolume"}
SegmentStarts == {1, 100}
SegmentLengths == {1, 14, 40}

SegmentFrame(kind, a, len) ==
    [columns |-> Columns,
     rows |-> [t \in 1 .. SeriesRows |->
                 IF t >= a /\ t < a + len
                 THEN SegmentBar(kind, a, t)
                 ELSE RegularBar(t)]]

\* the rows of hours a and a + 1 arrive in the opposite order
UnorderedFrame(a) ==
    [columns |-> Columns,
     rows |-> [t \in 1 .. SeriesRows |->
                 IF t = a THEN RegularBar(a + 1)
                 ELSE IF t = a + 1 THEN RegularBar(a)
                 ELSE RegularBar(t)]]

\* hour a arrives twice, the second time with another volume
DuplicatedFrame(a) ==
    [columns |-> Columns,
     rows |-> [t \in 1 .. SeriesRows + 1 |->
                 IF t <= a THEN RegularBar(t)
                 ELSE IF t = a + 1 THEN [RegularBar(a) EXCEPT !.Volume = 7]
                 ELSE RegularBar(t - 1)]]

Downloads ==
    {[columns |-> Columns, rows |-> <<>>],
     [columns |-> Columns \ {"Volume"},
      rows |-> [t \in 1 .. SeriesRows |-> RegularBar(t)]],
     SegmentFrame("rising", 1, 0)}
    \cup {SegmentFrame(kind, a, len) :
            kind \in SegmentKinds, a \in SegmentStarts, len \in SegmentLengths}
    \cup {SegmentFrame("zeroclose", a, 1) : a \in SegmentStarts}
    \cup {UnorderedFrame(a) : a \in SegmentStarts}
    \cup {DuplicatedFrame(a) : a \in SegmentStarts}

\* the rows at the positions lo .. hi that are in keep, in their order
RECURSIVE Pick(_, _, _, _)
Pick(rows, keep, lo, hi) ==
    IF lo > hi
    THEN <<>>
    ELSE IF lo = hi
         THEN (IF lo \in keep THEN <<rows[lo]>> ELSE <<>>)
         ELSE LET mid == (lo + hi) \div 2
              IN  Pick(rows, keep, lo, mid) \o Pick(rows, keep, mid + 1, hi)

\* df[~df.index.duplicated(keep="last")]
DropDuplicatesKeepLast(rows) ==
    Pick(rows,
         {p \in DOMAIN rows :
            \A q \in DOMAIN rows : q > p => rows[q].ts # rows[p].ts},
         1, Len(rows))

\* lines 17-38 (the frames of the model hold no NaN: line 38 drops no row)
FetchHourlyBtcData ==
    /\ pc = "download"
    /\ IF downloaded.rows = <<>> \/ ~(Columns \subseteq downloaded.columns)
       THEN /\ pc' = "raised"
            /\ raw' = raw
       ELSE /\ pc' = "fetched"
            /\ raw' = DropDuplicatesKeepLast(downloaded.rows)
    /\ UNCHANGED <<live_vars,
                   call_vars, downloaded, out, df, pos, bar, hmm_vars,
                   initial_capital, leverage, sim_vars>>

\* x / prev - 1
PctChange(x, prev) ==
    IF prev # 0 THEN "num" ELSE IF x = 0 THEN "nan" ELSE "inf"

\* Series.replace([np.inf, -np.inf], np.nan)
ReplaceInf(c) == IF c = "inf" THEN "nan" ELSE c

Returns(b, t) ==
    IF t = 1 THEN "nan" ELSE PctChange(b[t].Close, b[t - 1].Close)

\* (High - Low) / Close.replace(0, np.nan)
Range(b, t) == IF b[t].Close = 0 THEN "nan" ELSE "num"

VolumeChange(b, t) ==
    IF t = 1 THEN "nan" ELSE PctChange(b[t].Volume, b[t - 1].Volume)

VolumeVolatility(b, t) ==
    IF t < VolatilityWindow
    THEN "nan"
    ELSE IF \A k \in (t - VolatilityWindow + 1) .. t :
               VolumeChange(b, k) = "num"
         THEN "num"
         ELSE "nan"

\* -delta.where(delta < 0, 0.0); the NaN delta of the first row gives 0.0
Loss(b, t) ==
    IF t > 1 /\ b[t].Close < b[t - 1].Close
    THEN b[t - 1].Close - b[t].Close
    ELSE 0

\* avg_loss.replace(0, np.nan); rs = avg_gain / avg_loss
Rsi(b, t) ==
    IF t < RsiWindow
    THEN "nan"
    ELSE IF \A k \in (t - RsiWindow + 1) .. t : Loss(b, k) = 0
         THEN "nan"
         ELSE "num"

Momentum(b, t) ==
    IF t <= MomentumLag
    THEN "nan"
    ELSE PctChange(b[t].Close, b[t - MomentumLag].Close)

Volatility(b, t) ==
    IF t < VolatilityWindow
    THEN "nan"
    ELSE IF \A k \in (t - VolatilityWindow + 1) .. t : Returns(b, k) = "num"
         THEN "num"
         ELSE "nan"

PlusDm(b, t) ==
    IF t = 1
    THEN 0
    ELSE LET plus_dm == b[t].High - b[t - 1].High
             minus_dm == b[t - 1].Low - b[t].Low
         IN  IF plus_dm > minus_dm /\ plus_dm > 0 THEN plus_dm ELSE 0

MinusDm(b, t) ==
    IF t = 1
    THEN 0
    ELSE LET minus_dm == b[t - 1].Low - b[t].Low
         IN  IF minus_dm > PlusDm(b, t) /\ minus_dm > 0 THEN minus_dm ELSE 0

\* max of tr1, tr2, tr3 (tr2 and tr3 are NaN on the first row and skipped)
TrueRange(b, t) ==
    IF t = 1
    THEN b[t].High - b[t].Low
    ELSE Max2(b[t].High - b[t].Low,
              Max2(Abs(b[t].High - b[t - 1].Close),
                   Abs(b[t].Low - b[t - 1].Close)))

\* tr.rolling(14).mean().replace(0, np.nan)
Atr(b, t) ==
    IF t < AdxWindow
    THEN "nan"
    ELSE IF \A k \in (t - AdxWindow + 1) .. t : TrueRange(b, k) = 0
         THEN "nan"
         ELSE "num"

RECURSIVE WindowSum(_, _, _)
WindowSum(column, lo, hi) ==
    IF lo > hi THEN 0 ELSE column[lo] + WindowSum(column, lo + 1, hi)

\* 100 * |plus_di - minus_di| / (plus_di + minus_di), infinities replaced
Dx(b, t) ==
    IF Atr(b, t) = "nan"
    THEN "nan"
    ELSE LET plus == WindowSum([k \in t - AdxWindow + 1 .. t |-> PlusDm(b, k)],
                               t - AdxWindow + 1, t)
             minus == WindowSum([k \in t - AdxWindow + 1 .. t |-> MinusDm(b, k)],
                                t - AdxWindow + 1, t)
         IN  ReplaceInf(IF plus + minus # 0 THEN "num"
                        ELSE IF plus = minus THEN "nan" ELSE "inf")

Adx(b, t) ==
    IF t < AdxWindow
    THEN "nan"
    ELSE IF \A k \in (t - AdxWindow + 1) .. t : Dx(b, k) = "num"
         THEN "num"
         ELSE "nan"

\* the columns compute_indicators adds to row t (an ewm mean with
\* adjust=False has a value on every row)
IndicatorClass(b, t) ==
    [returns |-> Returns(b, t), range |-> Range(b, t),
     volume_volatility |-> VolumeVolatility(b, t), rsi |-> Rsi(b, t),
     momentum |-> Momentum(b, t), volatility |-> Volatility(b, t),
     adx |-> Adx(b, t), ema50 |-> "num", ema200 |-> "num", macd |-> "num",
     macd_signal |-> "num"]

IndicatorRow(b, t) ==
    LET c == IndicatorClass(b, t)
    IN  [ts |-> b[t].ts,
         undefined |-> {f \in DOMAIN c : c[f] = "nan"},
         infinite |-> {f \in DOMAIN c : c[f] = "inf"}]

NoBar == [ts |-> TimestampMin, undefined |-> {}, infinite |-> {}]

\* lines 19-61
ComputeIndicators ==
    /\ pc = "fetched"
    /\ out' = [t \in DOMAIN raw |-> IndicatorRow(raw, t)]
    /\ pc' = "indicators"
    /\ UNCHANGED <<live_vars,
                   call_vars, downloaded, raw, df, pos, bar, hmm_vars,
                   initial_capital, leverage, sim_vars>>

FeatureColumns == {"returns", "range", "volume_volatility"}

\* len(features) after features.replace([np.inf, -np.inf], np.nan).dropna()
FeatureRows(frame) ==
    Cardinality({t \in DOMAIN frame :
                   (frame[t].undefined \cup frame[t].infinite)
                     \cap FeatureColumns = {}})

\* lines 65-68: add_hmm_regimes is entered with the frame of indicators
SelectFeatures ==
    /\ pc = "indicators"
    /\ valid_rows' = FeatureRows(out)
    /\ pc' = "start"
    /\ UNCHANGED <<live_vars,
                   call_vars, frame_vars, n_components, adaptive_components,
                   regime_states, state_returns, regime_label, bull_state,
                   bear_state, initial_capital, leverage, sim_vars>>

\* DataFrame.dropna(): the rows without a NaN (regime_state and regime_label
\* have a value on every row)
DropNaRows(frame) ==
    Pick(frame, {t \in DOMAIN frame : frame[t].undefined = {}}, 1,
         Len(frame))

\* line 131
Dropna ==
    /\ pc = "labelled"
    /\ out # <<>>
    /\ df' = DropNaRows(out)
    /\ pc' = "cleaned"
    /\ UNCHANGED <<live_vars,
                   call_vars, downloaded, raw, out, pos, bar, hmm_vars,
                   initial_capital, leverage, sim_vars>>

\* line 145: the loop takes the next row of df
IterRows ==
    /\ pc = "cleaned"
    /\ pos < Len(df)
    /\ pos' = pos + 1
    /\ bar' = df[pos + 1]
    /\ UNCHANGED <<live_vars,
                   call_vars, downloaded, raw, out, df, pc, hmm_vars,
                   initial_capital, leverage, sim_vars>>

-----------------------------------------------------------------------------
(* storage/db.py: the tables trades and trade_snapshots *)

\* A row, and the kwargs of a call, are functions from column names to
\* values; a column that is NULL is not in the row's domain.  A table is
\* the sequence of its rows in insertion order.

RequiredEntryFields ==
    {"ts_entry", "mode", "strategy", "market_id", "side", "qty",
     "price_entry"}

RequiredSnapshotFields == {"trade_id", "ts", "phase"}

\* kwargs.get("trade_id"), "" when it is absent or empty
TradeIdOf(kwargs) ==
    IF "trade_id" \in DOMAIN kwargs THEN kwargs["trade_id"] ELSE ""

\* SELECT trade_id FROM trades WHERE trade_id = ? finds a row
TradeExists(table, trade_id) ==
    \E i \in DOMAIN table : table[i]["trade_id"] = trade_id

\* INSERT INTO trades (cols) VALUES (vals)
InsertTrade(table, kwargs) == Append(table, kwargs)

\* the row with every column replaced by the call's, the others lost
UpdateTradeReplacing(table, kwargs) ==
    [i \in DOMAIN table |->
        IF table[i]["trade_id"] = kwargs["trade_id"]
        THEN kwargs
        ELSE table[i]]

\* UPDATE trades SET k = ?, ... WHERE trade_id = ?
UpdateTrade(table, kwargs) ==
    [i \in DOMAIN table |->
        IF table[i]["trade_id"] = kwargs["trade_id"]
        THEN [c \in DOMAIN table[i] \cup DOMAIN kwargs |->
                IF c \in DOMAIN kwargs \ {"trade_id"}
                THEN kwargs[c]
                ELSE table[i][c]]
        ELSE table[i]]

Raised(table, exception) == [raised |-> exception, rows |-> table]

Returned(table) == [raised |-> "", rows |-> table]

\* DB.record_trade(**kwargs) on the table; locked: the database stays
\* locked through the five tries of _execute_retry
record_trade(table, kwargs, locked) ==
    IF TradeIdOf(kwargs) = ""
    THEN Raised(table, "ValueError")
    ELSE IF ~TradeExists(table, kwargs["trade_id"])
         THEN IF ~(RequiredEntryFields \subseteq DOMAIN kwargs)
              THEN Raised(table, "ValueError")
              ELSE IF locked
                   THEN Raised(table, "OperationalError")
                   ELSE Returned(InsertTrade(table, kwargs))
         ELSE IF DOMAIN kwargs = {"trade_id"}
              THEN Returned(table)
              ELSE IF locked
                   THEN Raised(table, "OperationalError")
                   ELSE Returned(UpdateTrade(table, kwargs))

\* DB.record_trade_snapshot(**kwargs) on the table
record_trade_snapshot(table, kwargs, locked) ==
    IF ~(RequiredSnapshotFields \subseteq DOMAIN kwargs)
    THEN Raised(table, "ValueError")
    ELSE IF locked
         THEN Raised(table, "OperationalError")
         ELSE Returned(Append(table, kwargs))

\* the calls of record_trade: an entry, an entry that lacks price_entry,
\* an exit, an update of one column, a call with nothing to set, and calls
\* with no trade_id
DbTradeIds == {"t1", "t2"}

EntryCall(trade_id, quantity) ==
    [trade_id |-> trade_id, ts_entry |-> 10, mode |-> Mode,
     strategy |-> "latency", market_id |-> "m1", side |-> "YES",
     qty |-> quantity, price_entry |-> 50, notes |-> "{}"]

IncompleteEntryCall(trade_id) ==
    [trade_id |-> trade_id, ts_entry |-> 10, mode |-> Mode,
     strategy |-> "latency", market_id |-> "m1", side |-> "YES",
     qty |-> 1, notes |-> "{}"]

ExitCall(trade_id, price) ==
    [trade_id |-> trade_id, ts_exit |-> 20, price_exit |-> price,
     pnl |-> price - 50,
     outcome |-> IF price > 50 THEN "WIN"
                 ELSE IF price < 50 THEN "LOSS" ELSE "FLAT",
     exit_reason |-> "target"]

TradeCalls ==
    {EntryCall(t, q) : t \in DbTradeIds, q \in {1, 2}}
      \cup {IncompleteEntryCall(t) : t \in DbTradeIds}
      \cup {ExitCall(t, price) : t \in DbTradeIds, price \in {48, 50, 52}}
      \cup {[trade_id |-> t, notes |-> "edited"] : t \in DbTradeIds}
      \cup {[trade_id |-> t] : t \in DbTradeIds}
      \cup {[trade_id |-> "", notes |-> "edited"], [notes |-> "edited"]}

\* DB.record_trade is called
RecordTrade ==
    /\ pc = "db"
    /\ \E kwargs \in TradeCalls, locked \in BOOLEAN :
         LET r == record_trade(db_trades, kwargs, locked)
         IN  /\ db_call' = kwargs
             /\ db_raised' = r.raised
             /\ db_trades' = r.rows
    /\ UNCHANGED <<pc, now, backtest_vars, app_vars, db_snapshots, db_errors,
                   qty_vars, breaker_vars>>

get_open_trade_count(table, mode) ==
    Cardinality({i \in DOMAIN table :
                   /\ table[i]["mode"] = mode
                   /\ "ts_exit" \notin DOMAIN table[i]})

\* SELECT COUNT(*) FROM trades WHERE mode = ? (the rows of today: the
\* clock of the model stays within one day)
get_today_trade_count(table, mode) ==
    Cardinality({i \in DOMAIN table : table[i]["mode"] = mode})

\* SELECT COUNT(*) FROM trades WHERE mode = ? AND exit_reason = 'exit_failed'
get_exit_failure_count_today(table, mode) ==
    Cardinality({i \in DOMAIN table :
                   /\ table[i]["mode"] = mode
                   /\ "exit_reason" \in DOMAIN table[i]
                   /\ table[i]["exit_reason"] = "exit_failed"})

-----------------------------------------------------------------------------
(* main.py: the orchestrator *)

\* Prices are whole cents, quantities and pnl exact rationals, the clock
\* whole seconds.  Trade ids stand for the values of uuid.uuid4().

TradeIdNames == <<"t1", "t2", "t3", "t4">>

\* what get_midpoint may return
Midpoints == {None, 50, 52}

TickSeconds == {MaxHoldSeconds, MaxHoldSeconds + 1}

Liquidities == {50, 10000}

\* the liquidity_usd compute_qty is called with
MaxLiquidity == 120

QtyLiquidities == (0 .. MaxLiquidity) \cup {10000, 50000, 60000}

RMax2(a, b) == IF RLess(a, b) THEN b ELSE a

RMin2(a, b) == IF RLess(b, a) THEN b ELSE a

\* App.compute_qty(liquidity_usd)
compute_qty(liquidity) ==
    LET notional_cap == RMax2(Zero,
                              RScale(MaxPositionPctOfLiquidity, liquidity))
    IN  RMax2(<<QtyFloor, 1>>, RMin2(notional_cap, <<QtyCap, 1>>))

\* the candidates opportunity_scan may pick as best
Candidates ==
    {[market_id |-> "m1", side |-> sd, qty |-> compute_qty(liq),
      price_ref |-> 50, liquidity_usd |-> liq, strategy |-> "latency"] :
        sd \in {"YES", "NO"}, liq \in Liquidities}

NoCandidate == [market_id |-> ""]

\* compute_qty is called with liquidity_usd
ComputeQty ==
    /\ pc = "qty"
    /\ qty' = compute_qty(liquidity_usd)
    /\ pc' = "returned"
    /\ UNCHANGED <<now, backtest_vars, app_vars, db_vars, liquidity_usd,
                   breaker_vars>>

\* KillSwitch.is_paused()
IsPaused == now < pause_until_ts

PauseUntilSeconds == now + PauseMinutesOnTrigger

\* the value KillSwitch.trigger_pause() gives pause_until_ts
PauseUntil == now + PauseMinutesOnTrigger * SecondsPerMinute

\* the kwargs of the record_trade call of execute
EntryRecord(trade_id, c) ==
    [trade_id |-> trade_id, ts_entry |-> now, mode |-> Mode,
     strategy |-> c.strategy, market_id |-> c.market_id, side |-> c.side,
     qty |-> c.qty, price_entry |-> c.price_ref]

\* the kwargs of the record_trade_snapshot calls (the columns that carry
\* the prices and the value of the position)
Snapshot(trade_id, phase, price, avg_price, quantity) ==
    [trade_id |-> trade_id, ts |-> now, phase |-> phase,
     yes_price |-> price, current_price |-> price, avg_price |-> avg_price,
     market_value |-> RScale(quantity, price)]

\* the Position execute builds
NewPosition(trade_id, c) ==
    [trade_id |-> trade_id, market_id |-> c.market_id, side |-> c.side,
     qty |-> c.qty, entry_price |-> c.price_ref, ts_entry |-> now,
     strategy |-> c.strategy, target_edge_cents |-> MinEdgeAfterCostsCents,
     max_hold_seconds |-> MaxHoldSeconds]

\* time passes
Tick ==
    /\ \E d \in TickSeconds :
         /\ now + d <= MaxNow
         /\ now' = now + d
    /\ UNCHANGED <<pc, backtest_vars, app_vars, db_vars, qty_vars,
                   breaker_vars>>

\* run / opportunity_scan down to the choice of the best candidate: the
\* kill switch is not paused and the day's budget of trades is not spent
OpportunityScan ==
    /\ ~shutdown
    /\ candidate = NoCandidate
    /\ ~IsPaused
    /\ get_today_trade_count(db_trades, Mode) < MaxTradesPerDay
    /\ candidate' \in Candidates
    /\ UNCHANGED <<pc, now, backtest_vars, shutdown, pause_until_ts,
                   open_positions, next_trade, pending, to_close, received,
                   entered, exits_ok, exits_failed, db_vars, qty_vars,
                   breaker_vars>>

\* the writes that may still find the database locked
Locks(names) == IF db_errors < MaxDbErrors THEN {""} \cup names ELSE {""}

risk_check_unpaused(c) ==
    IF get_exit_failure_count_today(db_trades, Mode)
         >= MaxConsecutiveExitFailures
    THEN "exit_failures"
    ELSE IF RLess(RScale(MaxPositionPctOfLiquidity, c.liquidity_usd), c.qty)
         THEN "liquidity"
         ELSE "ok"

\* App.risk_check(c): "ok", or the check that rejects the candidate
risk_check(c) ==
    IF IsPaused
    THEN "paused"
    ELSE IF get_exit_failure_count_today(db_trades, Mode)
              >= MaxConsecutiveExitFailures
         THEN "exit_failures"
         ELSE IF RLess(RScale(MaxPositionPctOfLiquidity, c.liquidity_usd),
                       c.qty)
              THEN "liquidity"
              ELSE "ok"

\* opportunity_scan: risk_check(best) is False and the scan returns
RiskCheckRejects ==
    /\ candidate # NoCandidate
    /\ risk_check(candidate) # "ok"
    /\ pause_until_ts' = IF risk_check(candidate) = "exit_failures"
                         THEN PauseUntil
                         ELSE pause_until_ts
    /\ candidate' = NoCandidate
    /\ UNCHANGED <<pc, now, backtest_vars, shutdown, open_positions,
                   next_trade, pending, to_close, received, entered,
                   exits_ok, exits_failed, db_vars, qty_vars, breaker_vars>>

\* execute that opens the position before it writes the snapshot
ExecuteOpensFirst(c, trade_id, lock) ==
    LET t == record_trade(db_trades, EntryRecord(trade_id, c),
                          lock = "trade")
        n == record_trade_snapshot(
                 db_snapshots,
                 Snapshot(trade_id, "ENTRY", c.price_ref, c.price_ref, c.qty),
                 lock = "snapshot")
    IN  IF t.raised # ""
        THEN [raised |-> t.raised, trades |-> db_trades,
              snapshots |-> db_snapshots, written |-> <<>>,
              positions |-> open_positions]
        ELSE [raised |-> n.raised, trades |-> t.rows, snapshots |-> n.rows,
              written |-> <<EntryRecord(trade_id, c)>>,
              positions |-> Append(open_positions,
                                   NewPosition(trade_id, c))]

\* App.execute(c) with the trade id uuid4 gave it: what it raised, the
\* tables and the open positions it leaves
Execute(c, trade_id, lock) ==
    LET t == record_trade(db_trades, EntryRecord(trade_id, c),
                          lock = "trade")
        n == record_trade_snapshot(
                 db_snapshots,
                 Snapshot(trade_id, "ENTRY", c.price_ref, c.price_ref, c.qty),
                 lock = "snapshot")
    IN  IF t.raised # ""
        THEN [raised |-> t.raised, trades |-> db_trades,
              snapshots |-> db_snapshots, written |-> <<>>,
              positions |-> open_positions]
        ELSE IF n.raised # ""
             THEN [raised |-> n.raised, trades |-> t.rows,
                   snapshots |-> db_snapshots,
                   written |-> <<EntryRecord(trade_id, c)>>,
                   positions |-> open_positions]
             ELSE [raised |-> "", trades |-> t.rows, snapshots |-> n.rows,
                   written |-> <<EntryRecord(trade_id, c)>>,
                   positions |-> Append(open_positions,
                                        NewPosition(trade_id, c))]

\* opportunity_scan: risk_check(best) is True and execute(best) runs.  An
\* exception of execute leaves run(): its finally clause sets _shutdown and
\* cancels the monitor.
RiskCheckExecutes ==
    /\ candidate # NoCandidate
    /\ risk_check(candidate) = "ok"
    /\ \E lock \in Locks({"trade", "snapshot"}) :
         LET trade_id == TradeIdNames[next_trade + 1]
             e == Execute(candidate, trade_id, lock)
         IN  /\ db_trades' = e.trades
             /\ db_snapshots' = e.snapshots
             /\ received' = received \o e.written
             /\ open_positions' = e.positions
             /\ entered' = IF e.positions = open_positions
                           THEN entered
                           ELSE Append(entered, trade_id)
             /\ db_errors' = IF lock = "" THEN db_errors ELSE db_errors + 1
             /\ shutdown' = (shutdown \/ e.raised # "")
             /\ pc' = IF e.raised # "" THEN "stopped" ELSE pc
    /\ next_trade' = next_trade + 1
    /\ candidate' = NoCandidate
    /\ UNCHANGED <<now, backtest_vars, pause_until_ts, pending, to_close,
                   exits_ok, exits_failed, db_call, db_raised, qty_vars,
                   breaker_vars>>

\* (mid - entry_price) * qty for YES, (entry_price - mid) * qty for NO
ExitPnl(p, mid) ==
    IF p.side = "YES"
    THEN RScale(p.qty, mid - p.entry_price)
    ELSE RScale(p.qty, p.entry_price - mid)

\* "WIN" if pnl > 0 else ("LOSS" if pnl < 0 else "FLAT")
Outcome(pnl) ==
    IF pnl[1] > 0 THEN "WIN" ELSE IF pnl[1] < 0 THEN "LOSS" ELSE "FLAT"

\* the kwargs of the record_trade call of exit_position
ExitRecord(p, mid, exit_reason) ==
    [trade_id |-> p.trade_id, ts_exit |-> now, price_exit |-> mid,
     pnl |-> ExitPnl(p, mid), outcome |-> Outcome(ExitPnl(p, mid)),
     exit_reason |-> exit_reason]

\* App.exit_position(pos, exit_reason) when get_midpoint returns mid:
\* "ok" (True), "failed" (False) or "raised", and the tables it leaves
exit_position(p, exit_reason, mid, lock) ==
    IF mid = None
    THEN [result |-> "failed", trades |-> db_trades,
          snapshots |-> db_snapshots, written |-> <<>>,
          pause |-> PauseUntil]
    ELSE LET t == record_trade(db_trades, ExitRecord(p, mid, exit_reason),
                               lock = "trade")
             n == record_trade_snapshot(
                      db_snapshots,
                      Snapshot(p.trade_id, "EXIT", mid, p.entry_price, p.qty),
                      lock = "snapshot")
         IN  IF t.raised # ""
             THEN [result |-> "raised", trades |-> db_trades,
                   snapshots |-> db_snapshots, written |-> <<>>,
                   pause |-> pause_until_ts]
             ELSE [result |-> IF n.raised # "" THEN "raised" ELSE "ok",
                   trades |-> t.rows, snapshots |-> n.rows,
                   written |-> <<ExitRecord(p, mid, exit_reason)>>,
                   pause |-> pause_until_ts]

\* position_monitor_loop: why the pass exits the position, "" when it does
\* not; mid is what the monitor's own get_midpoint returned
ExitReason(p, mid) ==
    IF now - p.ts_entry > p.max_hold_seconds
    THEN "timeout"
    ELSE IF mid = None
         THEN ""
         ELSE LET favorable == IF p.side = "YES"
                               THEN mid - p.entry_price
                               ELSE p.entry_price - mid
              IN  IF favorable >= p.target_edge_cents THEN "target" ELSE ""

\* the open positions after open_positions.pop(tid) for tid in to_close
Popped(positions, closed) ==
    SelectSeq(positions,
              LAMBDA q : \A k \in DOMAIN closed : closed[k] # q.trade_id)

\* where the loop stands once a pass is over: "while not self._shutdown"
LoopTop == IF shutdown THEN "stopped" ELSE "sleep"

\* the open positions after an exception ended the pass: the handler of
\* "except Exception" only prints
AfterRaise(positions, closed) == positions

\* position_monitor_loop: the sleep is over and a pass begins
MonitorWake ==
    /\ pc = "sleep"
    /\ IF open_positions = <<>>
       THEN /\ shutdown
            /\ pc' = "stopped"
            /\ UNCHANGED <<pending, to_close>>
       ELSE /\ pc' = "pass"
            /\ pending' = open_positions
            /\ to_close' = <<>>
    /\ UNCHANGED <<now, backtest_vars, shutdown, pause_until_ts,
                   open_positions, next_trade, candidate, received, entered,
                   exits_ok, exits_failed, db_vars, qty_vars, breaker_vars>>

\* position_monitor_loop: one position of the pass; after the last one the
\* positions of to_close are removed
MonitorStep ==
    /\ pc = "pass"
    /\ pending # <<>>
    /\ \E mid \in Midpoints,
          exit_mid \in IF exits_failed < MaxExitFailures
                       THEN Midpoints
                       ELSE Midpoints \ {None},
          lock \in Locks({"trade", "snapshot"}) :
         LET p == Head(pending)
             exit_reason == ExitReason(p, mid)
             x == exit_position(p, exit_reason, exit_mid, lock)
             result == IF exit_reason = "" THEN "kept" ELSE x.result
             closed == IF result = "ok"
                       THEN Append(to_close, p.trade_id)
                       ELSE to_close
             last == Len(pending) = 1
         IN  \* exit_position is not called, or writes nothing: its
             \* midpoint and the lock are not drawn
             /\ exit_reason = "" => (exit_mid = 50 /\ lock = "")
             /\ result = "failed" => lock = ""
             /\ db_trades' = IF exit_reason = "" THEN db_trades ELSE x.trades
             /\ db_snapshots' = IF exit_reason = ""
                                THEN db_snapshots
                                ELSE x.snapshots
             /\ received' = IF exit_reason = ""
                            THEN received
                            ELSE received \o x.written
             /\ pause_until_ts' = IF exit_reason = ""
                                  THEN pause_until_ts
                                  ELSE x.pause
             /\ exits_failed' = IF result = "failed"
                                THEN exits_failed + 1
                                ELSE exits_failed
             /\ exits_ok' = IF result = "ok"
                            THEN Append(exits_ok, p.trade_id)
                            ELSE exits_ok
             /\ db_errors' = IF lock = "" THEN db_errors ELSE db_errors + 1
             /\ to_close' = IF result = "raised" \/ last THEN <<>> ELSE closed
             /\ IF result = "raised"
                THEN /\ pending' = <<>>
                     /\ open_positions' = AfterRaise(open_positions, closed)
                     /\ pc' = LoopTop
                ELSE /\ pending' = Tail(pending)
                     /\ open_positions' = IF last
                                          THEN Popped(open_positions, closed)
                                          ELSE open_positions
                     /\ pc' = IF last THEN LoopTop ELSE "pass"
    /\ UNCHANGED <<now, backtest_vars, shutdown, next_trade, candidate,
                   entered, db_call, db_raised, qty_vars, breaker_vars>>

-----------------------------------------------------------------------------
(* collectors/polyscan_collector.py: the circuit breaker *)

\* what a request to Polyscan may end in: a response with ok = true, a
\* response with ok = false, an exception of the transport
RequestOutcomes == {"ok", "not_ok", "transport_error"}

Breaker == [failures |-> failures, open_until |-> open_until,
            backoff_seconds |-> backoff_seconds]

\* CircuitBreakerState.is_open()
is_open == now < open_until

\* CircuitBreakerState.on_success()
on_success(b) ==
    [failures |-> 0, open_until |-> 0,
     backoff_seconds |-> InitialBackoffSeconds]

\* CircuitBreakerState.on_failure()
on_failure(b) ==
    LET n == b.failures + 1
    IN  IF n >= FailureThreshold
        THEN [failures |-> n, open_until |-> now + b.backoff_seconds,
              backoff_seconds |-> Min2(b.backoff_seconds * 2,
                                       MaxBackoffSeconds)]
        ELSE [failures |-> n, open_until |-> b.open_until,
              backoff_seconds |-> b.backoff_seconds]

\* PolyscanClient._get_json with the circuit closed: the breaker it leaves.
\* The RuntimeError raised for ok = false is raised inside the try block,
\* so the handler of "except Exception" runs on_failure as well.
get_json(b, outcome) ==
    IF outcome = "ok"
    THEN on_success(b)
    ELSE IF outcome = "not_ok"
         THEN on_failure(on_failure(b))
         ELSE on_failure(b)

\* PolyscanClient._get_json is called: with the circuit open it raises at
\* once; otherwise the request is sent and ends in one of RequestOutcomes
GetJson ==
    /\ pc = "client"
    /\ IF is_open
       THEN /\ get_json_result' = "circuit_open"
            /\ UNCHANGED <<failures, open_until, backoff_seconds,
                           failed_requests>>
       ELSE \E outcome \in RequestOutcomes :
              LET b == get_json(Breaker, outcome)
              IN  /\ failures' = b.failures
                  /\ open_until' = b.open_until
                  /\ backoff_seconds' = b.backoff_seconds
                  /\ failed_requests' = IF outcome = "ok"
                                        THEN 0
                                        ELSE failed_requests + 1
                  /\ get_json_result' = outcome
    /\ UNCHANGED <<pc, now, backtest_vars, app_vars, db_vars, qty_vars>>

\* the time until the circuit closes again passes
BackoffElapses ==
    /\ pc = "client"
    /\ is_open
    /\ open_until <= MaxNow
    /\ now' = open_until
    /\ UNCHANGED <<pc, backtest_vars, app_vars, db_vars, qty_vars,
                   breaker_vars>>

-----------------------------------------------------------------------------
(* Specifications *)

NoMetrics ==
    [initial_capital |-> Zero, ending_capital |-> Zero, total_return |-> Zero,
     win_rate |-> Zero, total_trades |-> None, max_drawdown |-> Zero]

InitLocals ==
    /\ adaptive_components = None
    /\ regime_states = {}
    /\ state_returns = <<>>
    /\ regime_label = <<>>
    /\ bull_state = None
    /\ bear_state = None
    /\ capital = initial_capital
    /\ in_position = FALSE
    /\ entry_price = 0
    /\ entry_time = None
    /\ entry_capital = initial_capital
    /\ entry_votes = 0
    /\ cooldown_until = TimestampMin
    /\ trades = <<>>
    /\ equity_points = <<>>
    /\ signal_points = <<>>
    /\ metrics = NoMetrics
    /\ entries = <<>>
    /\ confirmed_bull_seen = FALSE
    /\ rising_bull = TRUE

\* no frame has been fetched
NoFrame ==
    /\ downloaded = [columns |-> {}, rows |-> <<>>]
    /\ raw = <<>>
    /\ out = <<>>
    /\ df = <<>>
    /\ pos = 0
    /\ bar = NoBar

\* App, DB and the circuit breaker as their constructors leave them
NoLive ==
    /\ now = 0
    /\ shutdown = FALSE
    /\ pause_until_ts = 0
    /\ open_positions = <<>>
    /\ next_trade = 0
    /\ pending = <<>>
    /\ to_close = <<>>
    /\ candidate = NoCandidate
    /\ received = <<>>
    /\ entered = <<>>
    /\ exits_ok = <<>>
    /\ exits_failed = 0
    /\ db_trades = <<>>
    /\ db_snapshots = <<>>
    /\ db_call = <<>>
    /\ db_raised = ""
    /\ db_errors = 0
    /\ liquidity_usd = None
    /\ qty = Zero
    /\ failures = 0
    /\ open_until = 0
    /\ backoff_seconds = InitialBackoffSeconds
    /\ failed_requests = 0
    /\ get_json_result = ""

InitCommon ==
    /\ pc = "start"
    /\ NoLive
    /\ row = NoRow
    /\ checks_returned = <<>>
    /\ votes_returned = None
    /\ NoFrame
    /\ InitLocals

\* run_backtest(initial_capital, leverage) on a history of valid_rows rows
Init ==
    /\ n_components = DefaultComponents
    /\ valid_rows \in HistoryRows
    /\ initial_capital = <<DefaultCapital, 1>>
    /\ leverage \in Leverages
    /\ InitCommon

Next ==
    \/ AddHmmRegimesRaise
    \/ AddHmmRegimesFit
    \/ StartBacktest
    \/ ProcessBar
    \/ Finish

Spec == Init /\ [][Next]_vars

\* add_hmm_regimes(df, n_components) alone
InitHmm ==
    /\ n_components \in 0 .. MaxComponents
    /\ valid_rows \in 0 .. MaxRows
    /\ initial_capital = <<DefaultCapital, 1>>
    /\ leverage = <<5, 2>>
    /\ InitCommon

NextHmm ==
    \/ AddHmmRegimesRaise
    \/ AddHmmRegimesFit

SpecHmm == InitHmm /\ [][NextHmm]_vars

\* evaluate_confirmations(row) alone
InitVotes ==
    /\ pc = "call"
    /\ NoLive
    /\ row \in VoteRows
    /\ checks_returned = <<>>
    /\ votes_returned = None
    /\ NoFrame
    /\ n_components = None
    /\ valid_rows = None
    /\ initial_capital = <<DefaultCapital, 1>>
    /\ leverage = <<5, 2>>
    /\ InitLocals

NextVotes == EvaluateConfirmations

SpecVotes == InitVotes /\ [][NextVotes]_vars

\* run_backtest from the download to the rows its loop takes
InitPipeline ==
    /\ pc = "download"
    /\ NoLive
    /\ downloaded \in Downloads
    /\ raw = <<>>
    /\ out = <<>>
    /\ df = <<>>
    /\ pos = 0
    /\ bar = NoBar
    /\ row = NoRow
    /\ checks_returned = <<>>
    /\ votes_returned = None
    /\ n_components = DefaultComponents
    /\ valid_rows = None
    /\ initial_capital = <<DefaultCapital, 1>>
    /\ leverage = <<5, 2>>
    /\ InitLocals

NextPipeline ==
    \/ FetchHourlyBtcData
    \/ ComputeIndicators
    \/ SelectFeatures
    \/ AddHmmRegimesRaise
    \/ AddHmmRegimesFit
    \/ Dropna
    \/ IterRows

SpecPipeline == InitPipeline /\ [][NextPipeline]_vars

\* no backtest is running
NoBacktest ==
    /\ row = NoRow
    /\ checks_returned = <<>>
    /\ votes_returned = None
    /\ NoFrame
    /\ n_components = None
    /\ valid_rows = None
    /\ initial_capital = <<DefaultCapital, 1>>
    /\ leverage = <<5, 2>>
    /\ InitLocals

\* App.run(): the tick loop and the position monitor
InitApp ==
    /\ pc = "sleep"
    /\ NoLive
    /\ NoBacktest

NextApp ==
    \/ Tick
    \/ OpportunityScan
    \/ RiskCheckRejects
    \/ RiskCheckExecutes
    \/ MonitorWake
    \/ MonitorStep

SpecApp == InitApp /\ [][NextApp]_vars

\* PolyscanClient._get_json and its circuit breaker
InitBreaker ==
    /\ pc = "client"
    /\ NoLive
    /\ NoBacktest

NextBreaker ==
    \/ GetJson
    \/ BackoffElapses
    \/ (pc = "client" /\ Tick)

SpecBreaker == InitBreaker /\ [][NextBreaker]_vars

\* DB.record_trade alone, on an empty table
InitDb ==
    /\ pc = "db"
    /\ NoLive
    /\ NoBacktest

NextDb == RecordTrade

SpecDb == InitDb /\ [][NextDb]_vars

\* App.compute_qty(liquidity_usd) alone
InitQty ==
    /\ pc = "qty"
    /\ now = 0
    /\ shutdown = FALSE
    /\ pause_until_ts = 0
    /\ open_positions = <<>>
    /\ next_trade = 0
    /\ pending = <<>>
    /\ to_close = <<>>
    /\ candidate = NoCandidate
    /\ received = <<>>
    /\ entered = <<>>
    /\ exits_ok = <<>>
    /\ exits_failed = 0
    /\ db_trades = <<>>
    /\ db_snapshots = <<>>
    /\ db_call = <<>>
    /\ db_raised = ""
    /\ db_errors = 0
    /\ liquidity_usd \in QtyLiquidities
    /\ qty = Zero
    /\ failures = 0
    /\ open_until = 0
    /\ backoff_seconds = InitialBackoffSeconds
    /\ failed_requests = 0
    /\ get_json_result = ""
    /\ NoBacktest

NextQty == ComputeQty

SpecQty == InitQty /\ [][NextQty]_vars

-----------------------------------------------------------------------------
(* Properties *)

LastTrade(ts) == ts[Len(ts)]

BearExit == "Regime flipped to Bear/Crash"

EndExit == "End of backtest"

RAdd(a, b) == RNorm(a[1] * b[2] + b[1] * a[2], a[2] * b[2])

\* the sum of the pnl of the first k trades
RECURSIVE SumPnl(_, _)
SumPnl(ts, k) == IF k = 0 THEN Zero ELSE RAdd(SumPnl(ts, k - 1), ts[k].pnl)

\* C1: a position that is open when a Bear bar is processed is closed on
\* that bar, with exit_reason "Regime flipped to Bear/Crash", whatever the
\* bar's votes and whether the position gains or loses.
C1_BearBarClosesPosition ==
    [][ (pc = "loop" /\ pc' = "loop" /\ in_position
           /\ row'.regime_state = bear_state)
        => /\ ~in_position'
           /\ Len(trades') = Len(trades) + 1
           /\ LastTrade(trades').exit_reason = BearExit
           /\ LastTrade(trades').exit_time = row'.ts
           /\ LastTrade(trades').exit_price = row'.Close
           /\ LastTrade(trades').entry_time = entry_time
           /\ signal_points'[Len(signal_points')] = "Cash" ]_vars

\* a Bear bar with 8 votes has just closed a position that was in profit
C1_Witness ==
    /\ pc = "loop"
    /\ Len(trades) > 0
    /\ LastTrade(trades).exit_reason = BearExit
    /\ LastTrade(trades).exit_time = row.ts
    /\ evaluate_confirmations(row) = 8
    /\ RLess(Zero, LastTrade(trades).pnl)

\* C2: after a Bear exit at t no position is opened before t + 48 hours, so
\* each trade's entry_time is at least 48 hours after the exit_time of the
\* trade before it.
C2_CooldownRespected ==
    /\ \A k \in DOMAIN entries :
         k > 1 /\ k - 1 \in DOMAIN trades
           => entries[k].ts >= trades[k - 1].exit_time + CooldownHours
    /\ \A k \in DOMAIN trades :
         k > 1 => trades[k].entry_time >= trades[k - 1].exit_time + CooldownHours
    /\ (pc = "loop" /\ in_position /\ Len(trades) > 0)
         => entry_time >= LastTrade(trades).exit_time + CooldownHours

\* a Bull bar with at least 7 votes, inside the cooldown, opened nothing
C2_Witness ==
    /\ pc = "loop"
    /\ Len(trades) > 0
    /\ bull_state # bear_state
    /\ row.regime_state = bull_state
    /\ evaluate_confirmations(row) >= VoteThreshold
    /\ row.ts > LastTrade(trades).exit_time
    /\ row.ts < LastTrade(trades).exit_time + CooldownHours
    /\ ~in_position

\* C3: every entry is made on a Bull bar with at least 7 votes; every Trade
\* has entry_votes 7 or 8 and the close of its (Bull) entry bar as entry_price.
C3_EntryOnlyOnConfirmedBull ==
    /\ \A k \in DOMAIN entries :
         /\ entries[k].regime_state = bull_state
         /\ evaluate_confirmations(entries[k]) >= VoteThreshold
    /\ \A k \in DOMAIN trades :
         /\ trades[k].entry_votes \in {7, 8}
         /\ k \in DOMAIN entries
         /\ trades[k].entry_votes = evaluate_confirmations(entries[k])
         /\ trades[k].entry_price = entries[k].Close
         /\ trades[k].entry_time = entries[k].ts
    /\ in_position
         => /\ Len(entries) > 0
            /\ entry_price = entries[Len(entries)].Close
            /\ entry_votes = evaluate_confirmations(entries[Len(entries)])
            /\ entry_votes \in {7, 8}

\* a recorded Trade that was entered with exactly 7 votes
C3_Witness ==
    \E k \in DOMAIN trades :
        /\ trades[k].entry_votes = VoteThreshold
        /\ trades[k].exit_reason = BearExit

C5_ForcedCloseAtEnd ==
    pc = "done"
      => /\ Len(trades) = Len(entries)
         /\ metrics.total_trades = Len(entries)
         /\ in_position
              => /\ Len(trades) > 0
                 /\ LastTrade(trades).exit_reason = EndExit
                 /\ LastTrade(trades).exit_time = row.ts
                 /\ LastTrade(trades).exit_price = row.Close
                 /\ LastTrade(trades).entry_time = entry_time
                 /\ LastTrade(trades).entry_price = entry_price
         /\ \A k \in DOMAIN trades :
              trades[k].exit_reason = EndExit => k = Len(trades) /\ in_position

\* the run ended with a position opened before the last bar; it was closed
\* at the last bar
C5_Witness ==
    /\ pc = "done"
    /\ in_position
    /\ Len(trades) > 0
    /\ LastTrade(trades).exit_reason = EndExit
    /\ LastTrade(trades).entry_time < LastTrade(trades).exit_time

\* C6: every value of the equity curve is >= 0 (positive initial capital and
\* leverage); a leveraged loss above the entry capital is clamped to 0.
C6_EquityNeverNegative ==
    /\ \A k \in DOMAIN equity_points :
         equity_points[k][1] >= 0 /\ equity_points[k][2] > 0
    /\ capital[1] >= 0
    /\ entry_capital[1] >= 0

\* an open position whose leveraged loss exceeds its entry capital is marked 0
C6_Witness ==
    /\ pc = "loop"
    /\ in_position
    /\ Len(equity_points) > 0
    /\ equity_points[Len(equity_points)] = Zero
    /\ RLess(Zero, entry_capital)
    /\ leverage[1] * (entry_price - row.Close) > leverage[2] * entry_price

C8_BullAndBearDistinct ==
    pc = "labelled"
      => /\ bull_state \in regime_states
         /\ bear_state \in regime_states
         /\ \A s \in regime_states :
              /\ state_returns[s] <= state_returns[bull_state]
              /\ state_returns[s] >= state_returns[bear_state]
         /\ bull_state # bear_state
         /\ \A s \in regime_states :
              /\ regime_label[s] = "Bull Run" <=> s = bull_state
              /\ regime_label[s] = "Bear/Crash" <=> s = bear_state
              /\ regime_label[s] = "Neutral" <=> s \notin {bull_state, bear_state}

\* C9: add_hmm_regimes fails when fewer than 120 valid feature rows remain
\* (119 raises) and not when there are 120 or more (120 fits); when it fails
\* there is no regime assignment and no backtest result.
C9_InsufficientData ==
    /\ pc = "raised"
         => /\ valid_rows < MinRows
            /\ regime_states = {}
            /\ regime_label = <<>>
            /\ bull_state = None
            /\ bear_state = None
            /\ trades = <<>>
            /\ equity_points = <<>>
            /\ signal_points = <<>>
            /\ metrics = NoMetrics
    /\ pc = "labelled" => valid_rows >= MinRows
    /\ (valid_rows >= 0 /\ valid_rows < MinRows) => pc \in {"start", "raised"}
    /\ pc \in {"loop", "done"} => bull_state # None /\ bear_state # None

\* 119 valid rows: the call has raised
C9_Witness ==
    /\ pc = "raised"
    /\ valid_rows = MinRows - 1

\* C10: the number of states is max(2, min(requested, valid_rows // 60)):
\* never below 2, never above the requested number when that is >= 2.
C10_AdaptiveComponents ==
    pc = "labelled"
      => /\ adaptive_components >= 2
         /\ n_components >= 2 => adaptive_components <= n_components
         /\ adaptive_components <= 2 \/ adaptive_components * 60 <= valid_rows
         /\ IF n_components <= 2
            THEN adaptive_components = 2
            ELSE IF n_components * 60 <= valid_rows
                 THEN adaptive_components = n_components
                 ELSE /\ adaptive_components * 60 <= valid_rows
                      /\ valid_rows < (adaptive_components + 1) * 60
         /\ regime_states \subseteq 0 .. adaptive_components - 1

\* a short history has reduced the requested number of states, to more than 2
C10_Witness ==
    /\ pc = "labelled"
    /\ adaptive_components > 2
    /\ adaptive_components < n_components

\* C11: when no bar of the series is Bull with at least 7 votes, the run
\* makes no trade: win_rate is 0, total_return is 0, the ending capital is the
\* initial capital, every signal is "Cash" and every equity value is the
\* initial capital.
C11_NoConfirmedBullNoTrade ==
    (pc \in {"loop", "done"} /\ ~confirmed_bull_seen)
      => /\ trades = <<>>
         /\ ~in_position
         /\ capital = initial_capital
         /\ \A k \in DOMAIN signal_points : signal_points[k] = "Cash"
         /\ \A k \in DOMAIN equity_points : equity_points[k] = initial_capital
         /\ pc = "done"
              => /\ metrics.total_trades = 0
                 /\ metrics.win_rate = Zero
                 /\ metrics.total_return = Zero
                 /\ metrics.ending_capital = initial_capital

\* a finished run of several bars, the last one a Bull bar with 6 votes, in
\* which no bar was Bull with 7 votes or more
C11_Witness ==
    /\ pc = "done"
    /\ ~confirmed_bull_seen
    /\ Len(equity_points) >= 2
    /\ bull_state # bear_state
    /\ row.regime_state = bull_state
    /\ evaluate_confirmations(row) = VoteThreshold - 1

\* C12 as stated: on a series (of one bar or more) whose close rises from bar
\* to bar, every bar Bull, none Bear, 8 votes on every bar, the run records
\* exactly one Trade, closed "End of backtest", with pnl > 0.
C12_RisingBullOneWinningTrade ==
    (pc = "done" /\ rising_bull /\ Len(equity_points) >= 1)
      => /\ Len(trades) = 1
         /\ trades[1].exit_reason = EndExit
         /\ RLess(Zero, trades[1].pnl)

\* C12 amended: on such a series of at least two bars the run records exactly
\* one Trade, entered at the first bar and closed "End of backtest" at the
\* last, with pnl > 0; on such a series of one bar the one Trade is entered
\* and closed at the same close and its pnl is 0.
C12_RisingBullTwoBars ==
    (pc = "done" /\ rising_bull /\ Len(equity_points) >= 1)
      => /\ Len(trades) = 1
         /\ Len(entries) = 1
         /\ trades[1].exit_reason = EndExit
         /\ trades[1].entry_time = entries[1].ts
         /\ trades[1].entry_price = entries[1].Close
         /\ trades[1].exit_time = row.ts
         /\ trades[1].exit_price = row.Close
         /\ Len(equity_points) >= 2
              => /\ RLess(Zero, trades[1].pnl)
                 /\ trades[1].entry_time < trades[1].exit_time
                 /\ trades[1].entry_price < trades[1].exit_price
         /\ Len(equity_points) = 1
              => /\ trades[1].pnl = Zero
                 /\ trades[1].entry_time = trades[1].exit_time

\* a finished run over two bars, both Bull with 8 votes, the second closing
\* above the first
C12_Witness ==
    /\ pc = "done"
    /\ rising_bull
    /\ Len(equity_points) >= 2
    /\ Len(trades) = 1
    /\ RLess(Zero, trades[1].pnl)

\* C13: max_drawdown of the equity curve of a run is a number <= 0, and it
\* is 0 exactly when the equity curve never decreases.
C13_MaxDrawdownNonPositive ==
    pc = "done"
      => /\ metrics.max_drawdown # NaN
         /\ ~RLess(Zero, metrics.max_drawdown)
         /\ metrics.max_drawdown = Zero
              <=> \A k \in DOMAIN equity_points :
                    k > 1 => ~RLess(equity_points[k], equity_points[k - 1])

\* the same for a run that simulated at least one bar
C13_NonEmptyCurve ==
    (pc = "done" /\ Len(equity_points) > 0) => C13_MaxDrawdownNonPositive

\* C15: evaluate_confirmations returns the number of its eight checks that
\* hold for the bar (rsi < 90; momentum > 0.01; volatility < 6; adx > 25;
\* close > ema50; close > ema200; ema50 > ema200; macd > macd_signal), one
\* vote each: the count is in 0 .. 8 and is determined by the bar's own
\* indicator values (momentum is in units of 0.01).
C15_VotesCountChecks ==
    pc = "voted"
      => LET holding ==
                 (IF row.rsi < 90 THEN {"rsi_lt_90"} ELSE {})
                 \cup (IF row.momentum > 1 THEN {"momentum_gt_1pct"} ELSE {})
                 \cup (IF row.volatility < 6 THEN {"volatility_lt_6pct"} ELSE {})
                 \cup (IF row.adx > 25 THEN {"adx_gt_25"} ELSE {})
                 \cup (IF row.Close > row.ema50 THEN {"price_gt_ema50"} ELSE {})
                 \cup (IF row.Close > row.ema200 THEN {"price_gt_ema200"} ELSE {})
                 \cup (IF row.ema50 > row.ema200 THEN {"ema50_gt_ema200"} ELSE {})
                 \cup (IF row.macd > row.macd_signal THEN {"macd_gt_signal"} ELSE {})
         IN  /\ votes_returned = Cardinality(holding)
             /\ votes_returned \in 0 .. 8
             /\ Cardinality(DOMAIN checks_returned) = 8
             /\ \A n \in DOMAIN checks_returned : checks_returned[n] <=> n \in holding
             /\ holding \subseteq DOMAIN checks_returned

\* a bar whose indicators all sit exactly on the value they are compared
\* with: no check holds, 0 votes
C15_Witness ==
    /\ pc = "voted"
    /\ row.rsi = 90 /\ row.momentum = 1 /\ row.volatility = 6 /\ row.adx = 25
    /\ row.Close = row.ema50 /\ row.ema50 = row.ema200
    /\ row.macd = row.macd_signal
    /\ votes_returned = 0

\* C16: when several regime states share the highest mean return the Bull
\* state is the one with the lowest state id, and when several share the
\* lowest mean return the Bear state is the one with the lowest state id.
C16_TiesLowestStateId ==
    pc = "labelled"
      => LET highest == {s \in regime_states :
                           \A t \in regime_states :
                               state_returns[t] <= state_returns[s]}
             lowest == {s \in regime_states :
                          \A t \in regime_states :
                              state_returns[t] >= state_returns[s]}
         IN  /\ bull_state \in highest
             /\ \A s \in highest : bull_state <= s
             /\ bear_state \in lowest
             /\ \A s \in lowest : bear_state <= s

\* two states tie for the highest mean return, a third state is lower; or
\* two tie for the lowest and a third is higher
C16_Witness ==
    /\ pc = "labelled"
    /\ bull_state # bear_state
    /\ \E s \in regime_states :
         /\ s > bull_state
         /\ state_returns[s] = state_returns[bull_state]
    /\ \E s \in regime_states :
         /\ s < bear_state
         /\ state_returns[s] > state_returns[bear_state]

\* C17: each bar appends exactly one equity value and one signal, after
\* those of the bars before it; the signal is "Long" iff a position is open
\* once the bar is processed (the entry bar is "Long", the exit bar "Cash");
\* a "Cash" bar that follows a "Cash" bar has the same equity value; the end
\* of the series changes neither list.
C17_OnePointPerBar ==
    [][ /\ (pc = "loop" /\ pc' = "loop")
           => LET n == Len(equity_points) IN
              /\ Len(signal_points) = n
              /\ Len(equity_points') = n + 1
              /\ Len(signal_points') = n + 1
              /\ \A k \in 1 .. n :
                   /\ equity_points'[k] = equity_points[k]
                   /\ signal_points'[k] = signal_points[k]
              /\ signal_points'[n + 1] \in {"Long", "Cash"}
              /\ signal_points'[n + 1] = "Long" <=> in_position'
              /\ Len(entries') > Len(entries) => signal_points'[n + 1] = "Long"
              /\ Len(trades') > Len(trades) => signal_points'[n + 1] = "Cash"
              /\ (n > 0 /\ signal_points[n] = "Cash"
                        /\ signal_points'[n + 1] = "Cash")
                   => equity_points'[n + 1] = equity_points[n]
        /\ (pc = "loop" /\ pc' = "done")
           => /\ equity_points' = equity_points
              /\ signal_points' = signal_points ]_vars

\* an entry bar ("Long"), the Bear bar that closed the position at a gain or
\* a loss ("Cash") and one more flat bar ("Cash") with the same equity
C17_Witness ==
    /\ pc = "loop"
    /\ Len(signal_points) = Len(equity_points)
    /\ \E k \in DOMAIN signal_points :
         /\ k + 2 \in DOMAIN signal_points
         /\ signal_points[k] = "Long"
         /\ signal_points[k + 1] = "Cash"
         /\ signal_points[k + 2] = "Cash"
         /\ equity_points[k + 2] = equity_points[k + 1]
         /\ equity_points[k + 1] # initial_capital

\* C20: at every exit (Bear bar or end of series) the Trade's pnl is the
\* marked equity minus the capital committed at entry and capital becomes the
\* marked equity; so capital = initial capital + the sum of the pnl of the
\* Trades, and total_return = ending capital / initial capital - 1.
C20_CapitalAccounting ==
    /\ [](pc \in {"loop", "done"}
            => /\ capital = RAdd(initial_capital, SumPnl(trades, Len(trades)))
               /\ (pc = "loop" /\ in_position) => entry_capital = capital
               /\ pc = "done"
                    => /\ metrics.ending_capital = capital
                       /\ metrics.initial_capital = initial_capital
                       /\ metrics.total_return[1] * capital[2]
                              * initial_capital[1]
                            = metrics.total_return[2]
                                * (capital[1] * initial_capital[2]
                                   - initial_capital[1] * capital[2]))
    /\ [][ Len(trades') = Len(trades) + 1
             => LET t == LastTrade(trades') IN
                /\ in_position
                /\ capital' =
                     MarkedEquity(entry_capital, leverage, t.exit_price,
                                  t.entry_price)
                /\ t.pnl = RSub(capital', entry_capital)
                /\ t.pnl = RSub(capital', capital)
                /\ t.exit_price = row'.Close
                /\ t.entry_price = entry_price ]_vars

\* a finished run with two Trades, the first closed at a loss by a Bear bar,
\* the second closed at the end of the series
C20_Witness ==
    /\ pc = "done"
    /\ Len(trades) = 2
    /\ RLess(trades[1].pnl, Zero)
    /\ trades[1].exit_reason = BearExit
    /\ trades[2].exit_reason = EndExit
    /\ RLess(capital, initial_capital)
    /\ RLess(Zero, capital)

\* C18: a division by zero in compute_indicators gives "undefined", never
\* an infinity, in every column; every row with an undefined column is
\* dropped by df.dropna(); every row the loop of run_backtest takes has a
\* finite value in every indicator column.
C18_NoUndefinedBarSimulated ==
    /\ \A t \in DOMAIN out : out[t].infinite = {}
    /\ pc = "cleaned"
         => /\ \A k \in DOMAIN df :
                 df[k].undefined = {} /\ df[k].infinite = {}
            /\ {df[k] : k \in DOMAIN df}
                 = {out[t] : t \in {u \in DOMAIN out : out[u].undefined = {}}}
            /\ pos > 0 => bar = df[pos]
    /\ bar.undefined = {}
    /\ bar.infinite = {}

\* the part of C18 about the rows the loop takes: they are the rows without
\* an undefined column, and none of them holds an infinity
C18_LoopRowsFinite ==
    /\ pc = "cleaned"
         => /\ \A k \in DOMAIN df :
                 df[k].undefined = {} /\ df[k].infinite = {}
            /\ {df[k] : k \in DOMAIN df}
                 = {out[t] : t \in {u \in DOMAIN out : out[u].undefined = {}}}
            /\ pos > 0 => bar = df[pos]
    /\ bar.undefined = {}
    /\ bar.infinite = {}

\* C19: a frame whose timestamps are out of order, or that lacks a column,
\* is rejected by fetch_hourly_btc_data before any indicator is computed,
\* and the loop of run_backtest takes its rows in strictly increasing
\* timestamp order.
C19_UnorderedRejected ==
    /\ (pc # "download"
          /\ (\/ ~(Columns \subseteq downloaded.columns)
              \/ \E p, q \in DOMAIN downloaded.rows :
                    p < q /\ downloaded.rows[p].ts > downloaded.rows[q].ts))
         => (pc = "raised" /\ raw = <<>> /\ out = <<>>)
    /\ \A k \in DOMAIN df : k > 1 => df[k - 1].ts < df[k].ts
    /\ (pos > 1 /\ pos <= Len(df)) => df[pos - 1].ts < bar.ts

-----------------------------------------------------------------------------
(* The orchestrator and its store *)

\* the positions in received of the entry / exit records of a trade
EntryRecordsOf(trade_id) ==
    {k \in DOMAIN received :
        "ts_entry" \in DOMAIN received[k]
        /\ received[k]["trade_id"] = trade_id}

ExitRecordsOf(trade_id) ==
    {k \in DOMAIN received :
        "ts_exit" \in DOMAIN received[k]
        /\ received[k]["trade_id"] = trade_id}

Occurrences(seq, x) == Cardinality({k \in DOMAIN seq : seq[k] = x})

IsOpen(trade_id) ==
    \E k \in DOMAIN open_positions : open_positions[k].trade_id = trade_id

\* C21: for every trade the orchestrator enters the store receives exactly
\* one entry record and, once the position has been exited, exactly one exit
\* record for the same trade_id, with outcome WIN when pnl > 0, LOSS when
\* pnl < 0 and FLAT when pnl = 0; a position that was exited successfully
\* is never exited a second time.
C21_OneEntryOneExitRecord ==
    /\ \A k \in DOMAIN entered :
         Cardinality(EntryRecordsOf(entered[k])) = 1
    /\ \A k \in DOMAIN exits_ok :
         /\ Cardinality(ExitRecordsOf(exits_ok[k])) = 1
         /\ Occurrences(exits_ok, exits_ok[k]) = 1
    /\ \A k \in DOMAIN received :
         "ts_exit" \in DOMAIN received[k] =>
            LET pnl == received[k]["pnl"]
            IN  received[k]["outcome"] =
                   IF RLess(Zero, pnl) THEN "WIN"
                   ELSE IF RLess(pnl, Zero) THEN "LOSS"
                   ELSE "FLAT"

\* with no write of the pass meeting a locked database the records are as
\* C21 says
C21_WhenNoWriteFails == db_errors = 0 => C21_OneEntryOneExitRecord

InSeq(seq, x) == \E k \in DOMAIN seq : seq[k] = x

\* C22: a position the monitor has exited (its target was reached or its
\* hold time was over, and a midpoint was available) is no longer among the
\* open positions once that pass is over; and a position leaves the open
\* positions only after its exit succeeded.
C22_ExitedThenRemoved ==
    /\ \A k \in DOMAIN exits_ok : IsOpen(exits_ok[k]) => pc = "pass"
    /\ \A k \in DOMAIN entered :
         ~IsOpen(entered[k]) => InSeq(exits_ok, entered[k])

\* with no write of the pass meeting a locked database C22 holds
C22_WhenNoWriteFails == db_errors = 0 => C22_ExitedThenRemoved

\* the positions in db_snapshots of the snapshots of a trade in a phase
SnapshotsOf(trade_id, phase) ==
    {j \in DOMAIN db_snapshots :
        db_snapshots[j]["trade_id"] = trade_id
        /\ db_snapshots[j]["phase"] = phase}

C24_QtyWithinCap ==
    pc = "returned" =>
       /\ ~RLess(RScale(MaxPositionPctOfLiquidity, liquidity_usd), qty)
       /\ ~RLess(<<QtyCap, 1>>, qty)

\* from a cap of one unit on, the quantity is within the cap and 500
C24_QtyWithinCapFromOne ==
    (pc = "returned"
       /\ ~RLess(RScale(MaxPositionPctOfLiquidity, liquidity_usd),
                 <<QtyFloor, 1>>))
    => C24_QtyWithinCap

-----------------------------------------------------------------------------
(* The circuit breaker *)

\* C25: every failed request, a transport error or a response with
\* ok = false, counts as exactly one failure; the circuit opens only once
\* three consecutive requests have failed; a successful request leaves no
\* failure counted, the circuit closed and the backoff at 15 seconds.
C25_ThreeFailedRequestsOpen ==
    /\ failures = failed_requests
    /\ open_until > 0 => failed_requests >= FailureThreshold
    /\ failed_requests = 0 =>
          /\ failures = 0
          /\ open_until = 0
          /\ backoff_seconds = InitialBackoffSeconds

-----------------------------------------------------------------------------
(* The table trades *)

\* at most one row per trade_id
OneRowPerTradeId ==
    \A i, j \in DOMAIN db_trades :
       db_trades[i]["trade_id"] = db_trades[j]["trade_id"] => i = j

\* the call db_call' of record_trade has taken db_trades to db_trades'
RecordTradeUpserts ==
    LET kw == db_call'
        id == TradeIdOf(kw)
    IN  /\ db_raised' # "" => db_trades' = db_trades
        /\ (id # "" /\ TradeExists(db_trades, id) /\ db_raised' = "") =>
              /\ Len(db_trades') = Len(db_trades)
              /\ \A i \in DOMAIN db_trades :
                   IF db_trades[i]["trade_id"] = id
                   THEN /\ DOMAIN db_trades'[i]
                             = DOMAIN db_trades[i] \cup DOMAIN kw
                        /\ \A c \in DOMAIN db_trades'[i] :
                             db_trades'[i][c] = IF c \in DOMAIN kw
                                                THEN kw[c]
                                                ELSE db_trades[i][c]
                   ELSE db_trades'[i] = db_trades[i]
        /\ (id # "" /\ ~TradeExists(db_trades, id)
              /\ ~(RequiredEntryFields \subseteq DOMAIN kw)) =>
              /\ db_raised' = "ValueError"
              /\ db_trades' = db_trades

\* C26: record_trade is an upsert keyed by trade_id: there is at most one
\* row per trade_id; a call for an existing trade_id sets exactly the
\* columns it supplies and leaves the other columns of the row and the
\* other rows as they were; a first call for a trade_id that lacks a
\* required entry field raises ValueError and writes no row.
C26_RecordTradeUpsert == []OneRowPerTradeId /\ [][RecordTradeUpserts]_vars

\* both trades have a row; one was updated by an exit after its notes had
\* been edited, the other is as it was inserted, and the last call, a
\* first call lacking a field, raised ValueError
C26_Witness ==
    /\ Len(db_trades) = 2
    /\ \E i \in DOMAIN db_trades :
         /\ "ts_exit" \in DOMAIN db_trades[i]
         /\ db_trades[i]["notes"] = "edited"
         /\ db_trades[i]["qty"] = 2
    /\ \E i \in DOMAIN db_trades : db_trades[i] = EntryCall("t2", 1)
    /\ db_raised = ""
    /\ "ts_exit" \in DOMAIN db_call

-----------------------------------------------------------------------------
(* Exit failures *)

\* C27: an exit attempt that fails for want of a midpoint counts as an exit
\* failure: the count that risk_check reads for the day is the number of
\* exit attempts that have failed.
C27_FailedExitsCounted ==
    get_exit_failure_count_today(db_trades, Mode) = exits_failed

-----------------------------------------------------------------------------
(* Entries, Bear bars and the ending capital *)

\* the bar row' has just been processed
BarProcessed ==
    pc = "loop" /\ pc' = "loop" /\ Len(equity_points') = Len(equity_points) + 1

\* the position is closed by the exit processing of the bar row'
ExitsOnBar == in_position /\ row'.regime_state = bear_state

\* the cooldown deadline after the exit processing of the bar row'
DeadlineOnBar ==
    IF ExitsOnBar THEN row'.ts + CooldownHours ELSE cooldown_until

\* entry is allowed on the bar row'
EntryAllowedOnBar ==
    /\ ~in_position \/ ExitsOnBar
    /\ row'.ts >= DeadlineOnBar
    /\ row'.regime_state = bull_state
    /\ evaluate_confirmations(row') >= VoteThreshold

\* C28: entry is taken whenever it is allowed: on every bar on which, after
\* exit processing, the simulator is Flat, the timestamp is at or after the
\* cooldown deadline, the regime is Bull and the votes are at least 7, a
\* position is opened with entry_price the bar's close, entry_time its
\* timestamp, entry_capital the current capital and entry_votes its votes.
C28_EntryTakenWhenAllowed ==
    [][ (BarProcessed /\ EntryAllowedOnBar)
        => /\ in_position'
           /\ entry_price' = row'.Close
           /\ entry_time' = row'.ts
           /\ entry_capital' = capital'
           /\ entry_votes' = evaluate_confirmations(row')
           /\ signal_points'[Len(signal_points')] = "Long" ]_vars

\* the first trade was entered before any exit, and a second position has
\* been opened on the bar exactly 48 hours after that trade's Bear exit
C28_Witness ==
    /\ pc = "loop"
    /\ Len(trades) = 1
    /\ trades[1].exit_reason = BearExit
    /\ in_position
    /\ entry_time = row.ts
    /\ entry_time = trades[1].exit_time + CooldownHours

\* C29: after processing a bar whose regime state is the Bear state the
\* simulator is Flat: the bar carries the signal "Cash" and no position has
\* been opened on it.
C29_FlatAfterBearBar ==
    (pc = "loop" /\ Len(equity_points) > 0 /\ row.regime_state = bear_state)
      => /\ ~in_position
         /\ signal_points[Len(signal_points)] = "Cash"

\* the same, when the Bull state and the Bear state differ
C29_WhenStatesDiffer == bull_state # bear_state => C29_FlatAfterBearBar

\* C30: the ending_capital of the metrics is the last value of the equity
\* curve, whether the run ends Flat, ends Long and is closed at the end, or
\* enters on the very last bar.
C30_EndingCapitalIsLastEquity ==
    (pc = "done" /\ Len(equity_points) > 0)
      => metrics.ending_capital = equity_points[Len(equity_points)]

\* the run ended Long, on a bar after the entry bar, and was closed at the
\* end at a gain
C30_Witness ==
    /\ pc = "done"
    /\ Len(trades) > 0
    /\ LastTrade(trades).exit_reason = EndExit
    /\ LastTrade(trades).entry_time < LastTrade(trades).exit_time
    /\ RLess(Zero, LastTrade(trades).pnl)
    /\ metrics.ending_capital # initial_capital

\* the run ended Flat after a Bear exit that changed the capital
C30_EndsFlat ==
    /\ pc = "done"
    /\ Len(trades) > 0
    /\ LastTrade(trades).exit_reason = BearExit
    /\ metrics.ending_capital # initial_capital

\* the entry was made on the very last bar, after an earlier trade
C30_EntryOnLastBar ==
    /\ pc = "done"
    /\ Len(trades) = 2
    /\ LastTrade(trades).exit_reason = EndExit
    /\ LastTrade(trades).entry_time = LastTrade(trades).exit_time
    /\ metrics.ending_capital # initial_capital

-----------------------------------------------------------------------------
(* Clamped equity *)

\* the last value of the equity curve
LastEquity(points) == points[Len(points)]

\* C31: a position is closed only by a Bear bar or by the end of the series:
\* a bar that is not Bear leaves an open position open, with its entry
\* fields and the trade log as they were, also when the marked equity of
\* the bar is clamped to 0; the pnl of a trade is the equity marked on its
\* closing bar less the capital committed at its entry.
C31_NoLiquidation ==
    [][ /\ (BarProcessed /\ in_position /\ row'.regime_state # bear_state)
          => /\ in_position'
             /\ trades' = trades
             /\ capital' = capital
             /\ <<entry_price, entry_time, entry_capital, entry_votes>>'
                  = <<entry_price, entry_time, entry_capital, entry_votes>>
             /\ LastEquity(equity_points')
                  = MarkedEquity(entry_capital, leverage, row'.Close,
                                 entry_price)
        /\ (BarProcessed /\ Len(trades') = Len(trades) + 1)
          => /\ row'.regime_state = bear_state
             /\ LastTrade(trades').pnl
                  = RSub(LastEquity(equity_points'), entry_capital)
        /\ (pc = "loop" /\ pc' = "done" /\ Len(trades') = Len(trades) + 1)
          => /\ in_position
             /\ LastTrade(trades').pnl
                  = RSub(LastEquity(equity_points), entry_capital) ]_vars

\* within one position the equity was 0 on the second bar and is positive
\* again on the third, and the position is still open
C31_Witness ==
    /\ pc = "loop"
    /\ Len(equity_points) = 3
    /\ trades = <<>>
    /\ in_position
    /\ equity_points[2] = Zero
    /\ RLess(Zero, equity_points[3])

\* a trade has just been appended to the trade log
TradeClosed ==
    /\ pc = "loop"
    /\ pc' \in {"loop", "done"}
    /\ Len(trades') = Len(trades) + 1

\* the capital is 0 after an exit
WipedOut == pc = "loop" /\ Len(trades) > 0 /\ capital = Zero

\* C32: no trade loses more than the capital committed at its entry: every
\* Trade has pnl >= -entry_capital and return_pct >= -100; once the capital
\* is 0 after an exit, every later equity value is 0 and every later Trade
\* has pnl 0 and return_pct 0.
C32_LossBoundedByEntryCapital ==
    [][ /\ TradeClosed
          => /\ ~RLess(LastTrade(trades').pnl, RSub(Zero, entry_capital))
             /\ ~RLess(LastTrade(trades').return_pct, <<-100, 1>>)
        /\ (WipedOut /\ BarProcessed)
          => /\ LastEquity(equity_points') = Zero
             /\ capital' = Zero
        /\ (WipedOut /\ TradeClosed)
          => /\ LastTrade(trades').pnl = Zero
             /\ LastTrade(trades').return_pct = Zero
             /\ capital' = Zero ]_vars

\* the first trade lost all of its entry capital (return -100) and a second
\* trade, entered with capital 0, has been closed with pnl 0
C32_Witness ==
    /\ pc = "done"
    /\ Len(trades) = 2
    /\ trades[1].pnl = RSub(Zero, initial_capital)
    /\ trades[1].return_pct = <<-100, 1>>
    /\ trades[2].pnl = Zero
    /\ trades[2].return_pct = Zero
    /\ LastEquity(equity_points) = Zero

-----------------------------------------------------------------------------
(* The trend checks *)

\* the checks other than price_gt_ema200 that the bar fails
OtherChecksFailed ==
    {n \in DOMAIN checks_returned \ {"price_gt_ema200"} : ~checks_returned[n]}

\* C33: on a bar with enough votes for an entry the close is above ema200:
\* the check price_gt_ema200 holds on every bar with at least 7 votes, so a
\* bar with exactly 7 votes fails exactly one of the other seven checks.
C33_EntryCloseAboveEma200 ==
    (pc = "voted" /\ votes_returned >= VoteThreshold)
      => /\ row.Close > row.ema200
         /\ checks_returned["price_gt_ema200"]
         /\ votes_returned = VoteThreshold
              => Cardinality(OtherChecksFailed) = 1

\* a bar with 7 votes whose close is not above ema50
C33_Witness ==
    /\ pc = "voted"
    /\ votes_returned = VoteThreshold
    /\ row.Close <= row.ema50
    /\ OtherChecksFailed = {"price_gt_ema50"}

-----------------------------------------------------------------------------
(* The shape of the trade log *)

\* every Trade is closed by a Bear bar or at the end; the Trade closed at
\* the end is the last one; a Trade closed by a Bear bar was entered on an
\* earlier bar
TradeLogShape ==
    \A k \in DOMAIN trades :
       /\ trades[k].exit_reason \in {BearExit, EndExit}
       /\ trades[k].exit_reason = EndExit => (k = Len(trades) /\ pc = "done")
       /\ trades[k].exit_reason = BearExit
            => trades[k].exit_time > trades[k].entry_time

\* a Trade appended by the loop is closed by the bar just processed, which
\* is in the Bear regime and is not the bar that opened the position
BearExitOnBearBar ==
    (BarProcessed /\ Len(trades') = Len(trades) + 1)
      => /\ LastTrade(trades').exit_reason = BearExit
         /\ LastTrade(trades').exit_time = row'.ts
         /\ row'.regime_state = bear_state
         /\ LastTrade(trades').entry_time = entry_time
         /\ entry_time < row'.ts

-----------------------------------------------------------------------------
(* The budget of trades and the kill switch *)

\* the rows of the table trades written in the mode of the orchestrator
TradesOfMode == {i \in DOMAIN db_trades : db_trades[i]["mode"] = Mode}

\* a step enters at most one trade, and the trade entered is the scan's
\* candidate, whose scan is then over
OneEntryPerScan ==
    /\ Len(entered') <= Len(entered) + 1
    /\ Cardinality(TradesOfMode') <= Cardinality(TradesOfMode) + 1
    /\ Len(entered') = Len(entered) + 1
         => /\ candidate # NoCandidate
            /\ candidate' = NoCandidate
            /\ Len(open_positions') = Len(open_positions) + 1
            /\ open_positions'[Len(open_positions')].market_id
                 = candidate.market_id
            /\ open_positions'[Len(open_positions')].side = candidate.side

NothingOpenedWhilePaused ==
    IsPaused
      => /\ Len(open_positions') <= Len(open_positions)
         /\ entered' = entered
         /\ Len(db_trades') = Len(db_trades)
         /\ candidate = NoCandidate => candidate' = NoCandidate

\* while the kill switch is paused the position monitor goes on: a pass
\* begins when the sleep is over and each position of the pass is looked at
MonitorRunsWhilePaused ==
    IsPaused
      => /\ (pc = "sleep" /\ open_positions # <<>>) => ENABLED MonitorWake
         /\ (pc = "pass" /\ pending # <<>>) => ENABLED MonitorStep

\* C36: while the kill switch is paused no new position is opened, also
\* when the monitor triggers the pause while a scan is suspended: no scan
\* starts during the pause and risk_check rejects the candidate of the
\* suspended scan; the position monitor keeps trying to exit during the
\* pause.
C36_NoEntryWhilePaused ==
    [][NothingOpenedWhilePaused]_vars /\ []MonitorRunsWhilePaused

\* the monitor triggered the pause while a scan was suspended and, with no
\* write failing, has exited the position during the pause; the candidate
\* of the scan is still to be checked
C36_Witness ==
    /\ IsPaused
    /\ candidate # NoCandidate
    /\ exits_failed >= 1
    /\ exits_ok = <<"t1">>
    /\ db_errors = 0
    /\ open_positions = <<>>

-----------------------------------------------------------------------------
(* An exit without a midpoint *)

\* exit_position has just found no midpoint for the first position of the
\* pass
ExitFoundNoMidpoint == exits_failed' = exits_failed + 1

\* the exit that found no midpoint wrote nothing, paused the kill switch
\* and left the position open and out of to_close
FailedExitKeepsPosition ==
    ExitFoundNoMidpoint
      => /\ pc = "pass"
         /\ db_trades' = db_trades
         /\ db_snapshots' = db_snapshots
         /\ received' = received
         /\ exits_ok' = exits_ok
         /\ pause_until_ts' = now + PauseMinutesOnTrigger * SecondsPerMinute
         /\ \E k \in DOMAIN open_positions' :
               open_positions'[k] = Head(pending)
         /\ ~InSeq(to_close', Head(pending).trade_id)
         /\ pc' \in {"pass", "sleep"}

\* C37: when exit_position cannot get a midpoint it returns False, records
\* no exit trade and no EXIT snapshot, pauses the kill switch for
\* pause_minutes and leaves the position among the open positions, so that
\* a later pass of the monitor tries the exit again.
C37_FailedExitRetried == [][FailedExitKeepsPosition]_vars

\* the exit of the position has failed on two passes; the position is still
\* open, nothing was written for its exit and the kill switch is paused
C37_Witness ==
    /\ exits_failed = 2
    /\ Len(open_positions) = 1
    /\ IsOpen("t1")
    /\ ExitRecordsOf("t1") = {}
    /\ SnapshotsOf("t1", "EXIT") = {}
    /\ SnapshotsOf("t1", "ENTRY") # {}
    /\ IsPaused
    /\ pc = "sleep"

-----------------------------------------------------------------------------
(* The open circuit and the backoff *)

\* a call made while the circuit is open is rejected at once and leaves
\* the breaker as it was
OpenCircuitRejects ==
    is_open
      => /\ failures' = failures
         /\ open_until' = open_until
         /\ backoff_seconds' = backoff_seconds
         /\ failed_requests' = failed_requests
         /\ now' = now => get_json_result' = "circuit_open"

\* a failed request has just opened the circuit
CircuitOpens == ~is_open /\ now' = now /\ now < open_until'

\* the circuit opens for the backoff in force, and the next backoff is
\* twice that, up to the cap
BackoffDoubles ==
    CircuitOpens
      => /\ open_until' = now + backoff_seconds
         /\ backoff_seconds' = Min2(2 * backoff_seconds, MaxBackoffSeconds)

\* backoff_seconds stays between 15 and 600 seconds
BackoffInRange ==
    /\ backoff_seconds >= InitialBackoffSeconds
    /\ backoff_seconds <= MaxBackoffSeconds

\* C38: while the circuit is open _get_json fails at once, without a
\* request and without changing the failure count, the backoff or the
\* open-until time; each time the circuit opens the next backoff is
\* doubled; backoff_seconds stays between 15 and 600 seconds.
C38_OpenCircuitAndBackoff ==
    /\ []BackoffInRange
    /\ [][OpenCircuitRejects]_vars
    /\ [][BackoffDoubles]_vars

\* the same, with the doubling asked only of requests that failed by an
\* exception of the transport
C38_WhenTransportFails ==
    /\ []BackoffInRange
    /\ [][OpenCircuitRejects]_vars
    /\ [][get_json_result' = "transport_error" => BackoffDoubles]_vars

=============================================================================
